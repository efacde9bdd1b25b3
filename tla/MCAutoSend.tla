----------------------------- MODULE MCAutoSend -----------------------------
EXTENDS AutoSend

\* A server and this machine answer on two interfaces; nobody is excluded.
Shared == [own |-> <<9, 8>>, reach |-> <<{1, 9}, {1}>>, allowed |-> {},
           enabled |-> {"text"}, type |-> "text"]

\* If both threads can be started, the third interface is not looked at, and
\* neither is the address of this machine there.
Unseen == [Shared EXCEPT !.own = <<9, 8, 7>>, !.reach = <<{}, {7, 8}, {}>>]

\* Servers on one interface, half of them allowed, and more than a list may
\* have; the user allowed this machine, too.
Many == [Shared EXCEPT !.own = <<9>>, !.reach = <<{1, 2, 3, 9}>>, !.allowed = {1, 2, 9}]

\* Files have been copied and only text is to be sent.
Off == [Many EXCEPT !.type = "file"]

AllSetups == {Shared, Unseen, Many, Off}
=============================================================================
