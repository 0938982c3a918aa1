--------------------------- MODULE MessageStream ---------------------------
(***************************************************************************)
(* What the TCP connection promises to the session that uses it: the peer  *)
(* receives whole messages, in the order of the calls of sendMessage, each *)
(* once, and none after the connection is closed.  The queue, the headers, *)
(* the chain of writes and its flag are not visible here.                  *)
(*                                                                         *)
(* TcpConnection implements this specification when one thread sends.      *)
(***************************************************************************)
EXTENDS Naturals, Sequences

VARIABLES link,        \* "new", "open" or "closed"
          sent,        \* calls of sendMessage
          delivered    \* the messages the peer has received

vars == <<link, sent, delivered>>

Init == link = "new" /\ sent = 0 /\ delivered = <<>>

Open == link = "new" /\ link' = "open" /\ UNCHANGED <<sent, delivered>>

Close == link = "open" /\ link' = "closed" /\ UNCHANGED <<sent, delivered>>

Send == link # "new" /\ sent' = sent + 1 /\ UNCHANGED <<link, delivered>>

Deliver ==
    /\ link = "open"
    /\ Len(delivered) < sent
    /\ delivered' = Append(delivered, Len(delivered) + 1)
    /\ UNCHANGED <<link, sent>>

Next == Open \/ Close \/ Send \/ Deliver

Spec == Init /\ [][Next]_vars
============================================================================
