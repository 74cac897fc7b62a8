------------------------------ MODULE MCBodies ------------------------------
(***************************************************************************)
(* Small response bodies for TLC: every row of up to MaxMessages messages, *)
(* with one- and two-byte lengths, and every way it can end.               *)
(***************************************************************************)
EXTENDS Integers, Sequences, SequencesExt

CONSTANTS
    MaxMessages,   \* the most messages in a body
    Heads,         \* the header lengths of a frame: 2, or more for long payloads
    Payloads       \* the payload lengths of a message

MessageFrames == [kind : {"message"}, head : Heads, payload : Payloads]

\* No trailer at all, or a last frame that is not a message.
Endings ==
    {<<>>} \cup {<<[kind |-> k, head |-> h, payload |-> 1]>> :
                    k \in {"EOF", "error", "junk", "huge"}, h \in Heads}

Size(frame) == frame.head + frame.payload

BodyOf(frames) ==
    LET start[i \in 1 .. Len(frames) + 1] ==
            IF i = 1 THEN 0 ELSE start[i - 1] + Size(frames[i - 1])
    IN  [n     |-> Len(frames),
         start |-> start,
         head  |-> [i \in DOMAIN frames |-> frames[i].head],
         kind  |-> [i \in DOMAIN frames |-> frames[i].kind]]

SmallBodies ==
    {BodyOf(messages \o ending) :
        messages \in SeqOf(MessageFrames, MaxMessages), ending \in Endings}
============================================================================
