----------------------------- MODULE ImgMatchMC -----------------------------
(* Instances of ImgMatch for TLC: small databases. *)
EXTENDS ImgMatch

CONSTANTS MaxPictures, MaxRows

NoPicture == -1
SomeDatabases == BoundedSeq({NoPicture} \cup 0 .. MaxRows, MaxPictures)
SomeOlder == {<<>>, <<2>>, <<1, 1>>}
GoodDatabases == {<<1, 2>>}
NoOlder == {<<>>}
SomeShare == [p \in Places |-> IF p = "server" THEN 40 ELSE 60]
=============================================================================
