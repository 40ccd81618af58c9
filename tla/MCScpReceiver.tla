--------------------------- MODULE MCScpReceiver ---------------------------
(* ScpReceiver for TLC: frames whose header, payload and checksum hold the *)
(* sentinel and the escape character.  SlideBuffer is extended so that TLC *)
(* evaluates its assumption, for the size of the staging buffer.  With so  *)
(* few byte values the sums of damaged frames often collide (Collision).   *)
EXTENDS ScpReceiver, SlideBuffer

MCPayloads == <<<<3>>, <<>>, <<2>>, <<1>>>>
=============================================================================
