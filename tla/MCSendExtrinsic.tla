--------------------------- MODULE MCSendExtrinsic ---------------------------
(* Instances of SendExtrinsic for TLC. *)
EXTENDS SendExtrinsic, TLC

CONSTANTS c1, c2, c3, alice, bob

OneSigner == [c \in Calls |-> alice]

\* c1 and c2 of one account overlap, c3 of another is independent.
TwoSigners == [c \in Calls |-> IF c = c3 THEN bob ELSE alice]
Overlapping == [c \in Calls |-> {}]

\* c1 and c3 overlap, c2 is made when c1 has settled.
Mixed == [c \in Calls |-> IF c = c2 THEN {c1} ELSE {}]

\* c1 is wrapped in sudo, which hides the failure of the inner call.
AnyOutcome == [c \in Calls |-> IF c = c1 THEN {"ok", "innerFailed"}
                                         ELSE {"ok", "failed"}]
OneMayFail == [c \in Calls |-> IF c = c3 THEN {"ok", "failed"} ELSE {"ok"}]
OneOutcome == [c \in Calls |-> {"ok"}]
=============================================================================
