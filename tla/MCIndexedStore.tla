--------------------------- MODULE MCIndexedStore ---------------------------
(* Two values of different ids under one key at the top, which nothing wants   *)
(* deleted: what Fsck is there to repair, and no nested bucket in its way.     *)
EXTENDS IndexedStore, TLC
CONSTANTS v1, w1, key
TwoIds == v1 :> 1 @@ w1 :> 2
OneKey == v1 :> <<key>> @@ w1 :> <<key>>
AtTop == key :> {}
NothingToDelete(S) == {}
=============================================================================
