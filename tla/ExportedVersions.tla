------------------------- MODULE ExportedVersions -------------------------
(***************************************************************************)
(* What the configuration export promises its readers, for one topic: a    *)
(* book of versions, each of which stands for one content for ever, and    *)
(* agents that only ever hold a content under the version the book gives   *)
(* it.  "if config changed, create new version and return; if not, return  *)
(* last version" (model/iversion_control/version_control.go).              *)
(***************************************************************************)
EXTENDS Naturals

CONSTANTS Agents, Contents

VARIABLES
    book,   \* the set of [version, content] that were published
    shown   \* what each agent holds; version 0 before its first answer

Nothing == [version |-> 0]
Published == [version : Nat \ {0}, content : Contents]

Init == book = {} /\ shown = [a \in Agents |-> Nothing]

\* A changed content is published under a version that was never used.
Publish ==
    /\ \E e \in book' : /\ e \in Published /\ \A old \in book : old.version # e.version
                       /\ book' = book \cup {e}
    /\ UNCHANGED shown

\* An agent takes over a published pair.
Show(a) ==
    /\ \E e \in book : shown' = [shown EXCEPT ![a] = e]
    /\ UNCHANGED book

Next == Publish \/ \E a \in Agents : Show(a)
Spec == Init /\ [][Next]_<<book, shown>>
=============================================================================
