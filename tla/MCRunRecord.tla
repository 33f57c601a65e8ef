---------------------------- MODULE MCRunRecord ----------------------------
\* Two stages: the first with one artifact, the second with two, as the
\* verifier stage has (its report and its findings).
EXTENDS RunRecord

MCOutputs == <<{"candidate"}, {"candidate", "findings"}>>
=============================================================================
