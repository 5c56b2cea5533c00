------------------------------ MODULE Message ------------------------------
(***************************************************************************)
(* An amqp::Message on its way: made and published through an Exchange,    *)
(* and made again of the amqp_message_t in the Envelope of the consumer.   *)
(*                                                                         *)
(* A property is in the message when its flag is set; that of a string     *)
(* points to memory of the message.  rabbitmq-c and the broker are         *)
(* external.                                                               *)
(***************************************************************************)
EXTENDS Integers, FiniteSets, Sequences, SequencesExt

CONSTANTS
  StringProps,  \* the string properties; expiration is one
  NumberProps,  \* delivery_mode, priority, timestamp
  Values,       \* values of properties: sequences of characters, Nul among them
  MaxSets       \* bound: calls of setters

MessageConstants ==
  /\ StringProps \cap NumberProps = {} /\ MaxSets \in Nat
  /\ Values \subseteq Seq(STRING)

VARIABLES
  stage,        \* of the message: none, made, published, delivered, gone
  flags, props,  \* m_properties of the publisher's message
  blocks,       \* the memory blocks it allocated, by property, and not freed yet
  wire,         \* the properties the envelope carries
  got_flags, got,  \* m_properties of the consumer's message
  got_blocks,
  sets,
  channel,      \* is the Channel still there?
  result        \* of the last call of the Exchange or the Queue: none, ok, crash

messageVars == <<stage, flags, props, blocks, wire, got_flags, got, got_blocks, sets, channel,
                 result>>

Props == StringProps \cup NumberProps
Nul == "nul"
Default == <<>>  \* "", 0 or UINT8_MAX
Unset == [p \in Props |-> Default]
NoBlocks == [p \in Props |-> 0]

TypeOK ==
  /\ stage \in {"none", "made", "published", "delivered", "gone"}
  /\ {flags, got_flags} \subseteq SUBSET Props
  /\ {props, got, wire} \subseteq [Props -> Seq({Nul, "a", "b", "c"})]
  /\ {blocks, got_blocks} \subseteq [Props -> -1..MaxSets]
  /\ sets \in 0..MaxSets /\ channel \in BOOLEAN /\ result \in {"none", "ok", "crash"}

-----------------------------------------------------------------------------
\* TO_AMQP_STR() takes what is before the first Nul.
Stored(p, v) ==
  IF p \in StringProps /\ Contains(v, Nul)
  THEN SubSeq(v, 1, (CHOOSE i \in DOMAIN v : v[i] = Nul /\ \A j \in 1..(i - 1) : v[j] # Nul) - 1)
  ELSE v

\* What the setter of p leaves in the blocks b: it allocates, and frees nothing.
Allocates(b, p) == IF p \in StringProps THEN [b EXCEPT ![p] = @ + 1] ELSE b

Make ==
  /\ stage = "none" /\ stage' = "made"
  /\ UNCHANGED <<flags, props, blocks, wire, got_flags, got, got_blocks, sets, channel, result>>

\* The setters; the value may be that of no value.
Set(p, v) ==
  /\ stage = "made" /\ sets < MaxSets /\ sets' = sets + 1
  /\ flags' = flags \cup {p} /\ props' = [props EXCEPT ![p] = Stored(p, v)]
  /\ blocks' = Allocates(blocks, p)
  /\ UNCHANGED <<stage, wire, got_flags, got, got_blocks, channel, result>>

\* The getters: the value, or the default of the property (UINT8_MAX, 0 or "").
Get(f, m, p) == IF p \in f THEN m[p] ELSE Default

\* Exchange::basic_publish() locks its weak pointer and does not look at it.
Publish ==
  /\ stage = "made" /\ result # "crash"
  /\ result' = (IF channel THEN "ok" ELSE "crash")
  /\ stage' = (IF channel THEN "published" ELSE "made")
  /\ wire' = [p \in Props |-> Get(flags, props, p)]
  /\ UNCHANGED <<flags, props, blocks, got_flags, got, got_blocks, sets, channel>>

\* remove(), bind_exchange(), unbind_exchange(), purge(), consume() of a Queue.
QueueCall ==
  /\ result # "crash" /\ result' = IF channel THEN "ok" ELSE "crash"
  /\ UNCHANGED <<stage, flags, props, blocks, wire, got_flags, got, got_blocks, sets, channel>>

\* A mutant: a number 0 is taken for no value.
Copies_Strings(carried) ==
  /\ got_flags' = carried \ NumberProps
  /\ got' = [p \in Props |-> IF p \in carried \ NumberProps THEN Stored(p, wire[p]) ELSE Default]
  /\ got_blocks' = [p \in Props |-> IF p \in carried \cap StringProps THEN 1 ELSE 0]

\* Message(amqp_message_t *): the setter of every property whose flag is set.
Copies(carried) ==
  /\ got_flags' = carried /\ got' = [p \in Props |-> IF p \in carried THEN Stored(p, wire[p]) ELSE Default]
  /\ got_blocks' = [p \in Props |-> IF p \in carried \cap StringProps THEN 1 ELSE 0]

\* Envelope(amqp_envelope_t *)
Deliver ==
  /\ stage = "published" /\ stage' = "delivered"
  /\ Copies(flags)
  /\ UNCHANGED <<flags, props, blocks, wire, sets, channel, result>>

\* ~Message() frees the string of every flag: the last block allocated for it.
Frees(f, b) == [p \in Props |-> IF p \in f \cap StringProps THEN b[p] - 1 ELSE b[p]]

\* Both messages end, that of the publisher first or last.
Destroy ==
  /\ stage = "delivered" /\ stage' = "gone"
  /\ blocks' = Frees(flags, blocks) /\ got_blocks' = Frees(got_flags, got_blocks)
  /\ UNCHANGED <<flags, props, wire, got_flags, got, sets, channel, result>>

\* The last shared pointer to the channel is dropped.
DropChannel ==
  /\ channel /\ channel' = FALSE
  /\ UNCHANGED <<stage, flags, props, blocks, wire, got_flags, got, got_blocks, sets, result>>

-----------------------------------------------------------------------------
Init ==
  /\ stage = "none" /\ flags = {} /\ props = Unset /\ blocks = NoBlocks
  /\ wire = Unset /\ got_flags = {} /\ got = Unset /\ got_blocks = NoBlocks
  /\ sets = 0 /\ channel = TRUE /\ result = "none"

Next ==
  \/ Make \/ Publish \/ QueueCall \/ Deliver \/ Destroy \/ DropChannel
  \/ \E p \in Props, v \in Values : Set(p, v)

Spec == Init /\ [][Next]_messageVars

-----------------------------------------------------------------------------
(***************************************************************************)
(* Properties                                                              *)
(***************************************************************************)

\* The consumer's getters return what the publisher's do, of every property, set
\* once, several times or never; and each string is in memory of the new message.
SameForTheConsumer ==
  /\ stage = "delivered" =>
       \A p \in Props : Get(got_flags, got, p) = Get(flags, props, p)
  /\ stage = "delivered" => \A p \in got_flags \cap StringProps : got_blocks[p] = 1

\* ~Message() frees nothing twice, and leaves what was set several times: one
\* block for every time but the last (message.cpp:125).
FreedOnce ==
  stage = "gone" =>
    /\ got_blocks = NoBlocks
    /\ \A p \in Props : blocks[p] >= 0
    /\ sets <= Cardinality(flags) => blocks = NoBlocks

\* Refuted: a message leaves no memory behind.
NoBlockLost == stage = "gone" => blocks = NoBlocks

\* Refuted: a Queue or an Exchange may be used as long as it exists.
NeverCrashes == result # "crash"
=============================================================================
