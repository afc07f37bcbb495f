------------------------------- MODULE MCProgram -------------------------------
(* Accounts for Program: none or one device, of the family or not, with an *)
(* entry that parses or not, and one of the family behind one that is not. *)
EXTENDS Program

Entry(pn, complete) == [pn |-> pn, complete |-> complete]

SmallAccounts ==
  {<< >>, <<Entry("A17C1", TRUE)>>, <<Entry("A1763", TRUE)>>,
   <<Entry("A1763", FALSE)>>,
   <<Entry("A1763", FALSE), Entry("A17C1", TRUE), Entry("AS100", TRUE)>>}
===============================================================================
