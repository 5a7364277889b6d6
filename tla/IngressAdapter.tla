------------------------------ MODULE IngressAdapter ------------------------------
(***************************************************************************)
(* The IngressAdapter and PacketRouter of src/ingress.rs: one task turns   *)
(* the packets of a client into signals, another one the notifications of  *)
(* the adapter's topic into packets for the client.  A packet that cannot  *)
(* be routed or converted is logged and skipped, and so is a notification. *)
(*                                                                         *)
(* The inbound task lives as long as somebody can still send: it ends when *)
(* the last sender is dropped and the channel is drained.                  *)
(***************************************************************************)
EXTENDS Naturals, Sequences

CONSTANTS
  Kind,        \* kinds of state machines, which are all that is looked at of an id
  Packet,      \* packets a client may send
  KindOf,      \* TryFrom<&In> for K: the kind of a packet, or None
  Routed,      \* the kinds that have a StateRouter
  IdOf,        \* what the router of its kind makes of a packet: an id, or None
  Convertible, \* the packets that TryFrom<In> for K::Input accepts
  None         \* an error or no id

ASSUME IngressAssumption ==
  /\ None \notin Kind
  /\ KindOf \in [Packet -> Kind \cup {None}]
  /\ Routed \subseteq Kind
  /\ IdOf \in [Packet -> Kind \cup {None}]
  /\ Convertible \subseteq Packet

VARIABLES
  packets,    \* history: what the client sent, in order
  inbound,    \* how many of them the inbound task has taken from the channel
  hungUp,     \* whether the client has dropped its senders
  task,       \* the inbound task: "none", "running" or "ended"
  front,      \* the front lane of the signal queue
  back,       \* the back lane
  pushed,     \* history: the packets that became signals, in order
  forwarded,  \* how many notifications the outbound task has taken from its channel
  received,   \* what the client was sent
  gone        \* whether the client has dropped its receiver

iaClient == <<packets, hungUp, gone>>
iaVars == <<iaClient, inbound, task, front, back, pushed, forwarded, received>>

\* A signal for the machine of an id: packet n, or what that machine tells itself about it.
Signal == [to : Kind, about : Nat, own : BOOLEAN]

IaTypeOK ==
  /\ packets \in Seq(Packet)
  /\ inbound \in 0..Len(packets)
  /\ hungUp \in BOOLEAN /\ gone \in BOOLEAN
  /\ task \in {"none", "running", "ended"}
  /\ front \in Seq({s \in Signal : s.own /\ s.about \in DOMAIN packets})
  /\ back \in Seq({s \in Signal : ~s.own /\ s.about \in DOMAIN packets})
  /\ pushed \in Seq(DOMAIN packets)
  /\ forwarded \in Nat
  /\ received \in Seq(DOMAIN packets)

IaInit ==
  /\ packets = <<>>
  /\ inbound = 0
  /\ hungUp = FALSE
  /\ task = "none"
  /\ front = <<>>
  /\ back = <<>>
  /\ pushed = <<>>
  /\ forwarded = 0
  /\ received = <<>>
  /\ gone = FALSE

-----------------------------------------------------------------------------
\* The client; it may send as long as the other end of the channel is there.
SendPacket(p) ==
  /\ ~hungUp
  /\ packets' = Append(packets, p)
  /\ UNCHANGED <<inbound, hungUp, task, front, back, pushed, forwarded, received, gone>>
HangUp ==
  /\ ~hungUp /\ hungUp' = TRUE
  /\ UNCHANGED <<packets, inbound, task, front, back, pushed, forwarded, received, gone>>
Leave ==
  /\ ~gone /\ gone' = TRUE
  /\ UNCHANGED <<packets, inbound, hungUp, task, front, back, pushed, forwarded, received>>

-----------------------------------------------------------------------------
\* PacketRouter::get_id: the router of the kind of the packet decides, if there are both.
GetId(p) == IF KindOf[p] \in Routed THEN IdOf[p] ELSE None
AcceptedUnconverted(p) == GetId(p) # None
Accepted(p) == GetId(p) # None /\ p \in Convertible

\* An error is not the end of the task.
AfterPacketOrError(p) == IF GetId(p) = None THEN "ended" ELSE "running"
AfterPacket(p) == "running"

\* One round of IngressAdapter::process_inbound.
ProcessInbound ==
  LET n == inbound + 1
      p == packets[n]
  IN /\ task = "running" /\ n \in DOMAIN packets
     /\ inbound' = n
     /\ task' = AfterPacket(p)
     /\ IF Accepted(p)
        THEN /\ back' = Append(back, [to |-> GetId(p), about |-> n, own |-> FALSE])
             /\ pushed' = Append(pushed, n)
        ELSE UNCHANGED <<back, pushed>>
     /\ UNCHANGED <<iaClient, front, forwarded, received>>

\* recv answers None: nobody can send any more and everything was taken.  The sender that the
\* adapter had of its own went with it when NotificationManager::new had its sender.
OwnSenderKept == task # "none"
OwnSender == task = "none"
InboundEnds ==
  /\ task = "running" /\ inbound = Len(packets) /\ hungUp /\ ~OwnSender
  /\ task' = "ended"
  /\ UNCHANGED <<iaClient, inbound, front, back, pushed, forwarded, received>>

\* NotificationProcessor::init of the adapter: both tasks are spawned.
SpawnAdapter ==
  /\ task' = "running"
  /\ UNCHANGED <<iaClient, inbound, front, back, pushed, forwarded, received>>

\* One round of the outbound task: a notification about packet n, or about none, which has no
\* TryInto<Out>; an error of the conversion or of the client's channel is logged.
ProcessOutbound(n) ==
  /\ forwarded' = forwarded + 1
  /\ received' = IF n # 0 /\ ~gone THEN Append(received, n) ELSE received
  /\ UNCHANGED <<iaClient, inbound, task, front, back, pushed>>

-----------------------------------------------------------------------------
\* A packet is good if its kind has a router, which finds its id, and it is an input.
Good(p) == KindOf[p] \in Routed /\ IdOf[p] # None /\ p \in Convertible
Ascending(s) == \A i, j \in DOMAIN s : i < j => s[i] < s[j]
Has(s, n) == \E i \in DOMAIN s : s[i] = n

\* The signals of a client are its good packets, each once and in their order, whatever bad
\* packets come in between.
InboundExact ==
  /\ Ascending(pushed)
  /\ \A n \in DOMAIN packets : Has(pushed, n) <=> n <= inbound /\ Good(packets[n])
=============================================================================
