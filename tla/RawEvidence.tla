---------------------------- MODULE RawEvidence ----------------------------
(***************************************************************************)
(* The bound on a stored raw output (invocation.py): the writer            *)
(* bound_raw_evidence cuts a text to a limit of bytes and marks the cut,   *)
(* and the verifier verify_raw_evidence_truncation classifies the stored   *)
(* bytes by their beginning and holds the metadata against that.           *)
(*                                                                         *)
(* A text is what the two tell apart: how its bytes begin (form), the byte *)
(* offsets at which its characters end, and the number a full marker at    *)
(* its beginning would claim.  The sizes of the two markers are constants: *)
(* the digits of the full one do not change its size here.                 *)
(***************************************************************************)
EXTENDS Integers, FiniteSets, FiniteSetsExt

CONSTANTS
  FullSize,      \* of "[m1-raw-evidence: truncated observed_bytes=N]\n"
  MinimalSize    \* of "[truncated]\n"

ASSUME MarkerAssumption ==
  FullSize \in Nat /\ MinimalSize \in Nat /\ 1 < MinimalSize /\ MinimalSize < FullSize

\* The bytes of the longest prefix of whole characters within max bytes: the
\* clipped bytes lose their last one until they decode.
TruncatedPrefix(text, max) == Max({0} \cup {e \in text.ends : e <= max})

Observed(text) == Max({0} \cup text.ends)

\* Mutant: the payload is cut to the limit and the marker put before it.
FitBeforeMarker(text, limit) ==
  [form |-> "full", bytes |-> FullSize + TruncatedPrefix(text, limit),
   claims |-> Observed(text)]

\* _fit_truncated_raw: the marker that fits, and what still fits after it.
FitTruncated(text, limit) ==
  IF FullSize <= limit
  THEN [form |-> "full", claims |-> Observed(text),
        bytes |-> FullSize + TruncatedPrefix(text, limit - FullSize)]
  ELSE IF MinimalSize <= limit
  THEN [form |-> "minimal", claims |-> 0,
        bytes |-> MinimalSize + TruncatedPrefix(text, limit - MinimalSize)]
  ELSE [form |-> "clipped_minimal", claims |-> 0, bytes |-> limit]

\* bound_raw_evidence: the file and the metadata beside it.
BoundRawEvidence(text, limit) ==
  LET truncated == Observed(text) > limit
      file == IF truncated THEN FitTruncated(text, limit)
              ELSE [form |-> text.form, claims |-> text.claims,
                    bytes |-> Observed(text)]
  IN  [file |-> file, truncated |-> truncated, stored |-> file.bytes,
       observed |-> Observed(text)]

\* verify_raw_evidence_truncation: the bytes are classified first, and the
\* metadata must agree; the minimal marker does not say how much was observed.
VerifyTruncation(file, truncated, stored, observed) ==
  /\ stored = file.bytes
  /\ truncated <=> file.form # "untruncated"
  /\ IF truncated
     THEN observed >= stored /\ (file.form = "full" => observed = file.claims)
     ELSE observed = stored
============================================================================
