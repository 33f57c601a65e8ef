---------------------------- MODULE MCRunStore ----------------------------
\* Texts of up to six bytes whose characters take one to three bytes, and texts
\* that begin like one of the markers.
EXTENDS RunStore

MCEnds == {{}, 1..3, 1..6, {2, 4, 6}, {3, 6}, {1, 3, 6}, {2, 5}}

MCTexts ==
  LET Text(form, E, n) == [form |-> form, ends |-> E, claims |-> n]
  IN  {Text("untruncated", E, 0) : E \in MCEnds}
      \cup {Text("clipped_minimal", {1}, 0), Text("minimal", {1, 2, 5}, 0),
            Text("full", 1..4, 1)}
===========================================================================
