--------------------------- MODULE PiggybackCodec ---------------------------
(***************************************************************************)
(* The datagram of the Java transport: what SerializeAndSend.run() writes  *)
(* and what UnserializeAndReceive.run() makes of it.                       *)
(*                                                                         *)
(*   commID (WordSize bytes) protocolByte                                  *)
(*       [ numPigMessages { serviceID piggyback }* ] message               *)
(*                                                                         *)
(* A byte is a number below Base (256 in the code).  What a Serializer     *)
(* writes is up to it, as long as its create() reads it back: one byte     *)
(* here.  The network hands over the datagram, or a prefix of it when the  *)
(* receiver's buffer is shorter.                                           *)
(***************************************************************************)
EXTENDS Integers, Sequences, FiniteSets, SequencesExt

CONSTANTS
    Base,           \* the number of bytes
    WordSize,       \* the bytes of an int
    SenderIDs,      \* the service identifiers in use at the sender
    ReceiverIDs,    \* the service identifiers in use at the receiver
    Payloads        \* the messages and piggybacked messages

(* The weight of the bytes in a word: Base ^ k.                            *)
Weight[k \in 0..WordSize] == IF k = 0 THEN 1 ELSE Base * Weight[k - 1]

SignedByte == (-(Base \div 2))..(Base \div 2 - 1)
Words == Weight[WordSize]
SignedWord == (-(Words \div 2))..(Words \div 2 - 1)

ASSUME CodecAssumption ==
    /\ Base \in Nat /\ Base % 2 = 0 /\ Base > 3
    /\ WordSize \in Nat \ {0}
    /\ SenderIDs \subseteq SignedByte /\ ReceiverIDs \subseteq SignedByte
    /\ Payloads \subseteq 0..Base - 1

VARIABLES
    sent,       \* the message given to SerializeAndSend: commID, msg, pigs
    whole,      \* the datagram arrived uncut
    bin,        \* the input stream: bytes not read yet
    pc,         \* header, piggyback, message, done or failed
    commID,     \* what the receiver has read
    numPigs,    \* piggybacked messages still to be read
    received,   \* piggybacked messages given to their services
    msg         \* the message, -1 when there is none yet

vars == <<sent, whole, bin, pc, commID, numPigs, received, msg>>

BITMASK_HASPIGGYBACK == 2

(* The low byte, which is what OutputStream.write(int) writes.             *)
LowByte(i) == i % Base

(* Mutant of ToSigned: no cast to byte.                                    *)
ToSigned_NoCast(b) == b

(* (byte) b: the signed value of a byte.                                   *)
ToSigned(b) == IF b < Base \div 2 THEN b ELSE b - Base

(* ByteBuffer.putInt() and getInt(), most significant byte first.          *)
putInt(i) == [k \in 1..WordSize |-> ((i % Words) \div Weight[WordSize - k]) % Base]

getInt(bytes) ==
    LET value[k \in 0..WordSize] ==
            IF k = 0 THEN 0 ELSE value[k - 1] * Base + bytes[k]
        u == value[WordSize]
    IN  IF u < Words \div 2 THEN u ELSE u - Words

(* Mutant of Pigs: the identifiers are not written.                        *)
Pigs_NoService(pigs) == [i \in DOMAIN pigs |-> pigs[i].msg]

(* pigOut: the identifier of the service and what the service serialized,  *)
(* by turns.                                                               *)
Pigs(pigs) ==
    [i \in 1..2 * Len(pigs) |->
        IF i % 2 = 1 THEN LowByte(pigs[(i + 1) \div 2].service)
                     ELSE pigs[i \div 2].msg]

(* Mutant of Serialize: the bit is not set.                                *)
Serialize_NoBit(m) ==
    putInt(m.commID) \o <<0>>
        \o (IF m.pigs = << >> THEN << >>
            ELSE <<LowByte(Len(m.pigs))>> \o Pigs(m.pigs))
        \o <<m.msg>>

(* SerializeAndSend.run().                                                 *)
Serialize(m) ==
    putInt(m.commID)
        \o <<IF m.pigs = << >> THEN 0 ELSE BITMASK_HASPIGGYBACK>>
        \o (IF m.pigs = << >> THEN << >>
            ELSE <<LowByte(Len(m.pigs))>> \o Pigs(m.pigs))
        \o <<m.msg>>

(* The messages to send.  Every service is asked once, in the order of     *)
(* their registration, and some have something to say.                     *)
Outgoing ==
    {[commID |-> c, msg |-> m, pigs |-> [k \in DOMAIN ids |->
                                  [service |-> ids[k], msg |-> x[ids[k]]]]] :
        c \in SignedWord, m \in Payloads,
        ids \in UNION {SetToSeqs(S) : S \in SUBSET SenderIDs},
        x \in [SenderIDs -> Payloads]}

Init ==
    /\ sent \in Outgoing
    /\ \E k \in 0..Len(Serialize(sent)) :
          /\ bin = SubSeq(Serialize(sent), 1, k)
          /\ whole = (k = Len(Serialize(sent)))
    /\ pc = "header"
    /\ commID = 0 /\ numPigs = 0 /\ received = << >> /\ msg = -1

(* bin.read(): the next byte, or -1 at the end of the stream.              *)
Read(s) == IF s = << >> THEN -1 ELSE Head(s)

Rest(s) == IF s = << >> THEN << >> ELSE Tail(s)

(* bin.read(buf, 0, n) into an array of zeros.                             *)
ReadInto(s, n) == [k \in 1..n |-> IF k <= Len(s) THEN s[k] ELSE 0]

HasBit(b) == (b \div BITMASK_HASPIGGYBACK) % 2 = 1

(* The header; a short one is filled up with zeros.  A missing count of    *)
(* piggybacked messages reads as -1, and the loop is not entered.          *)
Header ==
    LET buf  == ReadInto(bin, WordSize + 1)
        rest == SubSeq(bin, WordSize + 2, Len(bin))
    IN  /\ pc = "header"
        /\ commID' = getInt(SubSeq(buf, 1, WordSize))
        /\ \/ /\ HasBit(buf[WordSize + 1])
              /\ numPigs' = Read(rest) /\ bin' = Rest(rest)
              /\ pc' = IF numPigs' > 0 THEN "piggyback" ELSE "message"
           \/ /\ ~HasBit(buf[WordSize + 1])
              /\ bin' = rest /\ pc' = "message"
              /\ UNCHANGED numPigs
        /\ UNCHANGED <<sent, whole, received, msg>>

(* One round of the loop over the piggybacked messages: the service is     *)
(* found by its identifier, and gets its message before anything else is   *)
(* read; an unknown identifier is an AssertionError, and the end of the    *)
(* stream an exception of create().                                        *)
Piggyback ==
    LET id == ToSigned(LowByte(Read(bin)))
    IN  /\ pc = "piggyback"
        /\ \/ /\ id \in ReceiverIDs /\ Len(bin) > 1
              /\ received' = Append(received, [service |-> id, msg |-> bin[2]])
              /\ bin' = SubSeq(bin, 3, Len(bin))
              /\ numPigs' = numPigs - 1
              /\ pc' = IF numPigs' > 0 THEN "piggyback" ELSE "message"
           \/ /\ id \notin ReceiverIDs \/ Len(bin) <= 1
              /\ pc' = "failed"
              /\ UNCHANGED <<bin, numPigs, received>>
        /\ UNCHANGED <<sent, whole, commID, msg>>

(* serializer.create(bin).                                                 *)
Message ==
    /\ pc = "message"
    /\ \/ bin # << >> /\ msg' = Head(bin) /\ pc' = "done"
       \/ bin = << >> /\ pc' = "failed" /\ UNCHANGED msg
    /\ UNCHANGED <<sent, whole, bin, commID, numPigs, received>>

Next == Header \/ Piggyback \/ Message

Spec == Init /\ [][Next]_vars

-----------------------------------------------------------------------------
(* The number of piggybacked messages fits into the byte that announces    *)
(* them.                                                                   *)
CountFits == Len(sent.pigs) < Base

(* Every datagram that is accepted, a cut one included, arrives as it was  *)
(* sent: the identifier with its sign, the message, and to every service,  *)
(* negative identifiers included, its own piggybacked message, in order.   *)
RoundTrip ==
    pc = "done" /\ CountFits =>
        /\ commID = sent.commID
        /\ msg = sent.msg
        /\ received = sent.pigs

(* A complete datagram is refused only for a service the receiver does not *)
(* have.                                                                   *)
RefusedForCause ==
    pc = "failed" /\ whole /\ CountFits =>
        \E k \in DOMAIN sent.pigs : sent.pigs[k].service \notin ReceiverIDs

(* What services have been given, of a whole or a cut datagram, is the     *)
(* beginning of what was piggybacked: nothing is given to a wrong service. *)
NoMisdelivery == CountFits => IsPrefix(received, sent.pigs)

-----------------------------------------------------------------------------
(* The inductive invariant behind these properties.                        *)

Pig == [service : SenderIDs, msg : Payloads]

Types ==
    /\ sent \in [commID : SignedWord, msg : Payloads, pigs : Seq(Pig)]
    /\ pc \in {"header", "piggyback", "message", "done", "failed"}

(* The receiver has read n bytes of the datagram, or all that arrived.     *)
HasRead(n) ==
    \E k \in 0..Len(Serialize(sent)) :
        /\ bin = SubSeq(Serialize(sent), n + 1, k)
        /\ whole = (k = Len(Serialize(sent)))

(* Where the receiver is in the datagram, and what it knows by then.       *)
ReadInv ==
    /\ received \in Seq(Pig)
    /\ pc = "header" => HasRead(0) /\ received = << >>
    /\ pc = "piggyback" =>
          /\ HasRead(WordSize + 2 + 2 * Len(received))
          /\ commID = sent.commID
          /\ numPigs > 0 /\ numPigs = Len(sent.pigs) - Len(received)
    /\ pc = "message" =>
          /\ HasRead(Len(Serialize(sent)) - 1)
          /\ bin # << >> => commID = sent.commID /\ received = sent.pigs

(* Their conjunction.                                                      *)
IInv ==
    /\ Types
    /\ CountFits => ReadInv
    /\ NoMisdelivery /\ RoundTrip /\ RefusedForCause
=============================================================================
