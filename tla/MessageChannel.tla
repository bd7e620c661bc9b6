--------------------------- MODULE MessageChannel ---------------------------
(***************************************************************************)
(* What an OSMessageQueue promises: a double-ended channel of at most      *)
(* Capacity messages.  A send appends, a jam prepends, a receive takes the *)
(* front.  Nothing here says how the messages are stored or which threads  *)
(* are asleep; MessageQueue implements this specification.                 *)
(***************************************************************************)
EXTENDS Naturals, Sequences

CONSTANTS Message,      \* the message words a guest may post
          Capacity      \* OSMessageQueue.msgCount

VARIABLES channel,      \* the messages in the order receivers will see them
          delivered     \* the message the last receive handed out

channelVars == <<channel, delivered>>

ChannelInit == channel = <<>>

PutBack(m) == /\ Len(channel) < Capacity
              /\ channel' = Append(channel, m)
              /\ UNCHANGED delivered

PutFront(m) == /\ Len(channel) < Capacity
               /\ channel' = <<m>> \o channel
               /\ UNCHANGED delivered

Take == /\ channel # <<>>
        /\ delivered' = Head(channel)
        /\ channel' = Tail(channel)

ChannelNext == \/ \E m \in Message : PutBack(m) \/ PutFront(m)
               \/ Take

ChannelSpec == ChannelInit /\ [][ChannelNext]_channelVars
=============================================================================
