------------------------------ MODULE OneCall -------------------------------
(***************************************************************************)
(* A pure part of the program as a specification: a behaviour is one call  *)
(* of it, and one of the answers it may give.                              *)
(***************************************************************************)
EXTENDS Sequences

VARIABLES
  subject,   \* the part that is called
  asked,     \* the call
  answered   \* << >> until it returns, then << the answer >>

callVars == << subject, asked, answered >>

Called(part) == subject = part /\ answered = << >>
Returned(part) == subject = part /\ answered # << >>

Return(result) == answered' = << result >> /\ UNCHANGED << subject, asked >>

=============================================================================
