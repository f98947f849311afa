----------------------------- MODULE MCOverview -----------------------------
(***************************************************************************)
(* Instances of Overview: two databases of two identities with a contact   *)
(* in common; the first holds a group of that contact and has its options, *)
(* the second is new.                                                      *)
(***************************************************************************)
EXTENDS Overview

CONSTANTS Ann, Bea, Carl, Dora,   \* identities: two of our own, two contacts
          Club, Choir,            \* a group of Carl's, and one of a legacy file
          First, Second           \* the databases

MCKeyOf == [c \in {Ann, Bea, Carl, Dora} |-> <<"key of", c>>]
MCOwnerOf == [g \in {Club, Choir} |-> Carl]
MCNames == {<<"Jo">>}

\* A contact whose status was checked today, and whose feature level was
\* checked on the day.
Checked(c, day) ==
  [key |-> MCKeyOf[c], nick |-> <<>>, first |-> <<>>, last |-> <<"Smith">>,
   status |-> "active", statusAt |-> Today, level |-> LatestLevel, levelAt |-> day]

\* The first database is in use, the second was just made from a backup and
\* has been given a contact.
MCStored ==
  [d \in {First, Second} |->
     IF d = First
     THEN [self |-> Ann,
           contacts |-> [c \in {Ann, Carl, Dora} |->
                           Checked(c, IF c = Ann THEN Today - CheckAge ELSE Today)],
           groups |-> [g \in {Club} |-> [title |-> <<"Club">>, members |-> {Ann, Carl, Dora},
                                         awaiting |-> FALSE, deleted |-> FALSE]],
           options |-> [name \in {"sound"} |-> 1],
           server |-> [of |-> Ann, at |-> Today - 2]]
     ELSE [self |-> Bea,
           contacts |-> [c \in {Bea, Carl} |-> FreshRow(NewContact(c, MCKeyOf[c], <<>>))],
           groups |-> <<>>,
           options |-> <<>>,
           server |-> NeverFetched]]

MCLegacyContacts == <<NewContact(Dora, MCKeyOf[Dora], <<"Do">>)>>
MCLegacyGroups == <<[id |-> Choir, title |-> <<"Choir">>, members |-> {Ann, Dora}, awaiting |-> FALSE]>>
=============================================================================
