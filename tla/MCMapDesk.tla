----------------------------- MODULE MCMapDesk ------------------------------
(***************************************************************************)
(* A small desk: a token of the user's character, an object whose asset is *)
(* missing, and a third id for what is drawn.                              *)
(***************************************************************************)
EXTENDS MapDesk

CONSTANTS token, object, fresh, picture

Unset == [q \in Params |-> 0]

MCMyCharacter == 1

MCInitialMap ==
  [i \in AtomId |->
     CASE i = token -> [type |-> "Player", meta |-> [Unset EXCEPT !["CharacterId"] = 1],
                        asset |-> NoAsset]
       [] i = object -> [type |-> "Object", meta |-> Unset, asset |-> picture]
       [] OTHER -> NoAtom]

MCTemplates == {[type |-> "Object", meta |-> Unset, asset |-> picture]}

MCUpdateChoices ==
  {[NoUpdate EXCEPT !["CharacterId"] = 0], [NoUpdate EXCEPT !["Position"] = 1]}
=============================================================================
