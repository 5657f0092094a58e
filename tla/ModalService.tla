----------------------------- MODULE ModalService -----------------------------
(***************************************************************************)
(* What pushModal and popModal of js/ui/main.js promise to the parts of    *)
(* the shell that use them: the actors that want all input are kept in the *)
(* order in which they asked, and one leaves from wherever it is without a *)
(* change for the others.                                                  *)
(***************************************************************************)
EXTENDS Sequences, SequencesExt

CONSTANT Actor

VARIABLE stack

Stacked == {stack[i] : i \in DOMAIN stack}

Init == stack = <<>>

Push(a) ==
  /\ a \notin Stacked
  /\ stack' = Append(stack, a)

Pop(a) ==
  \E i \in DOMAIN stack : stack[i] = a /\ stack' = RemoveAt(stack, i)

Next == \E a \in Actor : Push(a) \/ Pop(a)

Spec == Init /\ [][Next]_stack

=============================================================================
