------------------------------ MODULE Ingress ------------------------------
(***************************************************************************)
(* The gateway's way in and out: webhooks and the inbound API publish to   *)
(* the stream, the router keeps one row per message key and monthly        *)
(* partition, and an answer is dispatched through the channel's adapter.   *)
(* One channel; its platform and its callers resend what was not answered. *)
(***************************************************************************)
EXTENDS Adapters, Sequences, FiniteSets

CONSTANTS
  MaxSends,      \* bound: requests to the gateway
  MaxPartitions  \* bound: monthly partitions of the message table

\* What the router or an agent may answer with.
Replies == {Words("said"), Medium("image", TRUE), Medium("video", TRUE),
            [Link(TRUE) EXCEPT !.text = "said"]}
NoReply == [told |-> NoContent, seen |-> NoContent]

VARIABLES
  platform,
  msgs,       \* the customer's messages, sent in the same second
  sends,      \* requests the gateway got
  accepted,   \* messages an API caller was told are accepted (history)
  stream,     \* entries not yet read by the router
  enqueued,   \* messages enqueued (history)
  taken,      \* messages read, each with the month it was read in (history)
  kept,       \* the stored messages
  month,      \* the partition a row is inserted in now
  reply

ingressVars == <<platform, msgs, sends, accepted, stream, enqueued, taken, kept, month, reply>>

MsgIds == {1, 2}

IngressInit ==
  /\ platform \in Platforms
  /\ \E type \in RawTypes, readable, first, named \in BOOLEAN :
       msgs = <<[id |-> 1, type |-> "text", readable |-> TRUE, named |-> first, second |-> 1],
                [id |-> 2, type |-> type, readable |-> readable, named |-> named, second |-> 1]>>
  /\ sends = 0 /\ accepted = {} /\ stream = <<>> /\ enqueued = {} /\ taken = {}
  /\ kept = <<>> /\ month = 1 /\ reply = NoReply

(* XADD: it lands, it fails, or it lands and its answer is lost.            *)
Publish(entries, landed) ==
  IF landed
  THEN stream' = stream \o entries /\ enqueued' = enqueued \cup {entries[i].of : i \in DOMAIN entries}
  ELSE UNCHANGED <<stream, enqueued>>

(* A webhook for message i, perhaps mangled or with a bad signature.  The   *)
(* answer does not depend on the XADD: a failed one is answered 200 too.    *)
Webhook(i, signed, body) ==
  LET r == WebhookOf(platform, signed, body, msgs[i])
      entries == IF r.publish = {} THEN <<>> ELSE <<CHOOSE e \in r.publish : TRUE>>
  IN
  /\ sends < MaxSends /\ sends' = sends + 1
  /\ \E landed \in BOOLEAN : Publish(entries, landed)
  /\ UNCHANGED <<platform, msgs, accepted, taken, kept, month, reply>>

\* ValidateMessage: each type has what it is made of.
Valid(c) ==
  CASE c.type = "text" -> c.text # ""
    [] c.type \in {"image", "video", "link"} -> c.url # ""
    [] c.type = "event" -> TRUE
    [] OTHER -> FALSE

\* The caller's own message, in our format: no second decoding.
ApiEntry(m) == [key |-> IF m.named THEN <<"id", m.id>> ELSE NoKey,
                content |-> IF m.type = "text" THEN Words(IF m.readable THEN "said" ELSE "")
                            ELSE Medium(m.type, m.readable), of |-> m.id]

(* POST /inbound: 400 when invalid, 429 when the limiter refuses (its       *)
(* error lets the message through), 500 when XADD failed, else 202.         *)
Post(i) ==
  LET entry == ApiEntry(msgs[i]) IN
  /\ sends < MaxSends /\ sends' = sends + 1
  /\ i \notin accepted
  /\ \/ /\ Valid(entry.content) /\ accepted' = accepted \cup {i}
        /\ Publish(<<entry>>, TRUE)
     \/ /\ Valid(entry.content) /\ UNCHANGED accepted
        /\ \E landed \in BOOLEAN : Publish(<<entry>>, landed)
     \/ UNCHANGED <<accepted, stream, enqueued>>      \* 400 or 429
  /\ UNCHANGED <<platform, msgs, taken, kept, month, reply>>

(* A row with the entry's key in this month's partition, which is all the   *)
(* unique index covers; a NULL key conflicts with nothing.                  *)
HasRow(entry) ==
  /\ entry.key # NoKey
  /\ \E i \in DOMAIN kept : kept[i].key = entry.key /\ kept[i].month = month

\* The router's read: CreateMessage keeps the first row of a key and month.
Take ==
  LET entry == Head(stream)
      row == [key |-> entry.key, content |-> entry.content, of |-> entry.of, month |-> month] IN
  /\ stream # <<>> /\ stream' = Tail(stream)
  /\ taken' = taken \cup {<<entry.of, month>>}
  /\ kept' = IF HasRow(entry) THEN kept ELSE Append(kept, row)
  /\ UNCHANGED <<platform, msgs, sends, accepted, enqueued, month, reply>>

NextMonth ==
  /\ month < MaxPartitions /\ month' = month + 1
  /\ UNCHANGED <<platform, msgs, sends, accepted, stream, enqueued, taken, kept, reply>>

(* An answer goes out through the registry.                                 *)
Dispatch(c, net) ==
  /\ kept # <<>> /\ reply = NoReply
  /\ LET o == SendOf(platform, c, net) IN reply' = [told |-> c, seen |-> o.seen]
  /\ UNCHANGED <<platform, msgs, sends, accepted, stream, enqueued, taken, kept, month>>

IngressNext ==
  \/ \E i \in MsgIds, signed \in BOOLEAN, body \in Bodies : Webhook(i, signed, body)
  \/ \E i \in MsgIds : Post(i)
  \/ Take \/ NextMonth
  \/ \E c \in Replies, net \in Nets : Dispatch(c, net)

IngressSpec == IngressInit /\ [][IngressNext]_ingressVars

RowsWith(m, mo) == {i \in DOMAIN kept : kept[i].of = m.id /\ kept[i].month = mo}

\* What the customer sees of an answer is its words, or its medium; the marker
\* only stands for an answer that had no words at all.
ShownAs(told, seen) ==
  /\ seen.url # "" => told.url # "" /\ told.type = seen.type
  /\ seen.url = "" => seen.text = IF told.text # "" THEN told.text
                                  ELSE IF told.desc # "" THEN told.desc ELSE "marker"

(* A message the platform gives an id is one row in the partition of every  *)
(* month it is read in, however often it is sent, and no other message      *)
(* takes its place.  One without an id may be taken for another that has    *)
(* none either, sent in the same second, and for nothing else.  A caller    *)
(* told 202 has its message in the stream or behind it; and an answer is    *)
(* seen as what it says.                                                    *)
CarriedFaithfully ==
  /\ accepted \subseteq enqueued
  /\ \A i \in MsgIds, mo \in 1..month : msgs[i].named =>
       Cardinality(RowsWith(msgs[i], mo)) = IF <<i, mo>> \in taken THEN 1 ELSE 0
  /\ \A i \in MsgIds, mo \in 1..month : ~msgs[i].named /\ <<i, mo>> \in taken =>
       \E k \in DOMAIN kept : kept[k].month = mo /\ ~msgs[kept[k].of].named
  /\ reply.seen = NoContent \/ ShownAs(reply.told, reply.seen)
=============================================================================
