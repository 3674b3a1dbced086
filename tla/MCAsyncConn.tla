----------------------------- MODULE MCAsyncConn -----------------------------
(***************************************************************************)
(* One connection for TLC.  Eight bytes in writes of up to four are enough *)
(* for a write that is split, one that is queued behind it and one that    *)
(* finds the callback armed over an empty buffer.                          *)
(***************************************************************************)
EXTENDS AsyncConn
=============================================================================
