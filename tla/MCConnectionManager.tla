------------------------ MODULE MCConnectionManager ------------------------
EXTENDS ConnectionManager

\* A user with the management right, linked to the first tunnelling address only.
MCUsers == { [dm |-> TRUE, restricted |-> TRUE, slots |-> {1}] }

\* Distinct addresses, and the same one twice.
MCAddrLists == { <<1, 2>>, <<1, 1>> }
=============================================================================
