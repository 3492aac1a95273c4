--------------------------- MODULE Tec1gSerialMC ---------------------------
(* Bytes of two bits for Tec1gSerial. *)
EXTENDS Tec1gSerial

MCTxByte == {<<1, 0>>}
MCTexts == {<<<<1, 0>>>>, <<<<0, 1>>, <<1, 1>>>>}
=============================================================================
