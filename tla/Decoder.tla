------------------------------ MODULE Decoder ------------------------------
(***************************************************************************)
(* What each from_der entry point promises its caller (spec 6, 7 and 8),  *)
(* as one atomic step from the input to a result.  It is the abstract     *)
(* specification that the state machines X509Certificate, X509Crl and     *)
(* X509Csr implement.                                                      *)
(*                                                                         *)
(* A result is [st, v, rest]: st is "ok", "err" (a structural error) or   *)
(* "inc" (the Truncated class); v is the decoded tree, NoValue on an      *)
(* error; rest is the number of cells left after the structure.           *)
(***************************************************************************)
EXTENDS DerCodec

CONSTANT Inputs   \* a set of records [bytes, expect, ...]

VARIABLES
  buf,      \* the input buffer
  expect,   \* the tree buf encodes, NoValue when it encodes none
  result    \* NoValue until the call returns

vars == <<buf, expect, result>>

\* The buffer ends inside its first element (spec 7: Truncated).
Truncated(b) == Len(b) = 0 \/ (b[1].t # "octet" /\ 1 + b[1].n > Len(b))

\* The results the caller may see: the encoded tree with nothing left over,
\* or, for an input that encodes no tree, an error and no partial object.
\* The error is Truncated exactly when the buffer ends inside the element
\* (spec 7: "buffer ends mid-structure"); a complete element with a field
\* missing or overrunning is a structural error (UnexpectedType,
\* InvalidLength), which tells a streaming caller not to wait for more.
Outcomes(b, x) ==
  IF x # NoValue THEN {[st |-> "ok", v |-> x, rest |-> 0]}
  ELSE {[st |-> s, v |-> NoValue, rest |-> 0] :
          s \in IF Truncated(b) THEN {"inc"} ELSE {"err"}}

Init ==
  /\ \E in \in Inputs : buf = in.bytes /\ expect = in.expect
  /\ result = NoValue

\* The call returns.
Return ==
  /\ result = NoValue
  /\ result' \in Outcomes(buf, expect)
  /\ UNCHANGED <<buf, expect>>

Safety == Init /\ [][Return]_vars

\* A call always returns: decoding is a finite computation (spec 5).
Spec == Safety /\ WF_vars(Return)

=============================================================================
