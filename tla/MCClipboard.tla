---------------------------- MODULE MCClipboard -----------------------------
EXTENDS Clipboard

\* Two commands, one of them with an item in chunks, and the user.
Commands == [web |-> FALSE, listens |-> FALSE, large |-> {1}, displayFails |-> TRUE,
             patient |-> FALSE, items |-> 2, copies |-> 1, pastes |-> 2]

\* A command beside the automatic sender.
Listened == [Commands EXCEPT !.listens = TRUE, !.large = {},
                               !.displayFails = FALSE, !.items = 1, !.pastes = 1]

\* The same with an item in chunks, for the user and the sender to ask for at once.
Chunks == [Listened EXCEPT !.large = {1}]

\* The web client beside the automatic sender; one that receives two items.
Page  == [web |-> TRUE, listens |-> TRUE, large |-> {}, displayFails |-> FALSE,
          patient |-> FALSE, items |-> 1, copies |-> 2, pastes |-> 1]
Pages == [Page EXCEPT !.listens = FALSE, !.patient = TRUE, !.items = 2, !.copies = 1, !.pastes = 2]

AllSetups == {Commands, Listened, Chunks, Page}
TwoPages  == {Pages}
=============================================================================
