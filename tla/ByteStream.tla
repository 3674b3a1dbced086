----------------------------- MODULE ByteStream -----------------------------
(***************************************************************************)
(* What a PurpleAsyncConn promises to its owner: an outgoing byte stream   *)
(* that never blocks the caller.  Bytes handed over while the stream is    *)
(* open reach the kernel in order, without gaps and without repetition;    *)
(* closing may cut the stream but never corrupts what was already sent.    *)
(***************************************************************************)
EXTENDS SequencesExt

VARIABLES
  in,      \* every byte the owner handed over, in order
  out,     \* every byte given to the kernel, in order
  st       \* "new", "open" or "closed"

bsVars == <<in, out, st>>

Init == in = <<>> /\ out = <<>> /\ st = "new"

Open == st = "new" /\ st' = "open" /\ UNCHANGED <<in, out>>

\* The owner hands over bytes; some or all of what is pending may go out in
\* the same step, and nothing else does.
Write ==
  /\ st = "open"
  /\ IsPrefix(in, in')
  /\ IsPrefix(out, out')
  /\ IsPrefix(out', in')
  /\ UNCHANGED st

Deliver ==
  /\ st = "open"
  /\ out' # out
  /\ IsPrefix(out, out')
  /\ IsPrefix(out', in)
  /\ UNCHANGED <<in, st>>

\* Only an open or a new stream closes, once, and closing sends nothing.
Close == st # "closed" /\ st' = "closed" /\ UNCHANGED <<in, out>>

Next == Open \/ Write \/ Deliver \/ Close

Safety == Init /\ [][Next]_bsVars

(***************************************************************************)
(* While the stream stays open what is pending is eventually delivered:    *)
(* the byte at any position leaves unless the stream is closed first.      *)
(***************************************************************************)
Delivered(n) == (Len(in) >= n) ~> (Len(out) >= n \/ st = "closed")
=============================================================================
