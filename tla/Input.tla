-------------------------------- MODULE Input ---------------------------------
(***************************************************************************)
(* The keyboard (src/src/input.go).  A goroutine reads the terminal, which *)
(* hands over what has been typed in pieces of any size, or nothing after  *)
(* 100 ms; the decoder keeps the bytes that may be the beginning of a      *)
(* longer sequence and sends a key for every sequence that is complete.    *)
(*                                                                         *)
(* A byte stands for its class: "5" and ";" for the parameters of a        *)
(* control sequence, "A" for the letters of the arrow keys, "C" and "c"    *)
(* for the first and the last byte of a two-byte character.                *)
(***************************************************************************)
EXTENDS Integers, Sequences, SequencesExt

CONSTANTS
    Inputs,    \* what the user types, byte by byte
    KeyCap     \* capacity of the keys channel (128)

VARIABLES
    typed,     \* all that is typed
    rest,      \* typed, not yet read
    pending,   \* inputDecoder.pending
    decoded,   \* keys feed has decoded and not yet sent
    keys,      \* the channel
    received,  \* keys the main goroutine has taken
    pauses,    \* lengths of the input at which a lone Escape was let go
    reader     \* "reads", "stopping" (its context is cancelled) or "gone"

inputVars == <<typed, rest, pending, decoded, keys, received, pauses, reader>>

Bytes == {"esc", "[", "O", "<", "5", ";", "A", "M", "~", "x", "cr", "tab", "del",
          "C", "c"}

ASSUME InputAssumption == Inputs \subseteq Seq(Bytes) /\ KeyCap \in Nat \ {0}

Final == {"A", "M", "~", "O", "x"}      \* 0x40-0x7e; "[" is one as well
Printable == {"[", "O", "<", "5", ";", "A", "M", "~", "x"}

Key(name, bytes) == [key |-> name, bytes |-> bytes]
Escape == Key("escape", <<>>)

\* Index of the byte that ends the control sequence in p, 0 while there is none.
EndOf(p) == LET ends == {i \in 3..Len(p) : p[i] \in Final \cup {"["}}
            IN IF ends = {} THEN 0 ELSE CHOOSE i \in ends : \A j \in ends : i <= j

IsMouse(s) == s = <<"<", "5", ";", "5", ";", "5", "M">>

\* The keys of one control sequence: a known key; a mouse report, dropped when
\* it is malformed; anything else is handed on raw.
SequenceKeys(p, end) ==
    LET s == SubSeq(p, 3, end) IN
    IF s \in {<<"A">>, <<"5", "~">>} THEN <<Key("move", s)>>
    ELSE IF s[1] # "<" THEN <<Key("raw", SubSeq(p, 1, end))>>
    ELSE IF IsMouse(s) THEN <<Key("mouse", s)>>
    ELSE <<>>

Wait == [keys |-> <<>>, size |-> 0]
Take(n, ks) == [keys |-> ks, size |-> n]

\* Mutated form: Escape O is taken for an Alt key when the third byte is late.
Control_O(p) ==
    IF p[2] = "[" THEN IF EndOf(p) = 0 THEN Wait
                       ELSE Take(EndOf(p), SequenceKeys(p, EndOf(p)))
    ELSE IF p[2] = "O" /\ Len(p) >= 3 THEN Take(3, <<Key("raw", SubSeq(p, 1, 3))>>)
    ELSE IF p[2] \in Printable THEN Take(2, <<Key("alt", <<p[2]>>)>>)
    ELSE Take(1, <<Escape>>)

\* What starts with an Escape that has a successor.
Control(p) ==
    IF p[2] = "[" THEN IF EndOf(p) = 0 THEN Wait
                       ELSE Take(EndOf(p), SequenceKeys(p, EndOf(p)))
    ELSE IF p[2] = "O" THEN IF Len(p) < 3 THEN Wait
                            ELSE Take(3, <<Key("raw", SubSeq(p, 1, 3))>>)
    ELSE IF p[2] \in Printable THEN Take(2, <<Key("alt", <<p[2]>>)>>)
    ELSE Take(1, <<Escape>>)

Rune(p) ==
    IF p[1] # "C" THEN Take(1, <<Key("rune", <<p[1]>>)>>)
    ELSE IF Len(p) = 1 THEN Wait
    ELSE IF p[2] = "c" THEN Take(2, <<Key("rune", <<"C", "c">>)>>)
    ELSE Take(1, <<Key("rune", <<"C">>)>>)      \* utf8.RuneError, one byte

\* The first sequence of p, or Wait when more bytes could change it.
FirstKey(p) ==
    IF p[1] = "esc" THEN IF Len(p) = 1 THEN Wait ELSE Control(p)
    ELSE IF p[1] \in {"cr", "tab", "del"} THEN Take(1, <<Key(p[1], <<>>)>>)
    ELSE Rune(p)

\* The keys of p, and what may be the beginning of one more: last[n] is for the
\* last n bytes of p.
Decode(p) ==
    LET last[n \in 0..Len(p)] ==
          LET q   == SubSeq(p, Len(p) - n + 1, Len(p))
              one == FirstKey(q)
          IN IF n = 0 THEN [keys |-> <<>>, pending |-> <<>>]
             ELSE IF one.size = 0 THEN [keys |-> <<>>, pending |-> q]
             ELSE [keys    |-> one.keys \o last[n - one.size].keys,
                   pending |-> last[n - one.size].pending]
    IN last[Len(p)]

-----------------------------------------------------------------------------
(* os.Stdin.Read returns some of what has been typed, and feed decodes it. *)
feed(n) ==
    /\ reader = "reads" /\ decoded = <<>>
    /\ LET result == Decode(pending \o SubSeq(rest, 1, n)) IN
           pending' = result.pending /\ decoded' = result.keys
    /\ rest' = SubSeq(rest, n + 1, Len(rest))
    /\ UNCHANGED <<typed, keys, received, pauses, reader>>

(* A read that returns nothing: an Escape that stayed alone is the key.    *)
Pause ==
    /\ reader = "reads" /\ decoded = <<>>
    /\ pending = <<"esc">>
    /\ pending' = <<>>
    /\ decoded' = <<Escape>>
    /\ pauses' = pauses \cup {Len(typed) - Len(rest)}
    /\ UNCHANGED <<typed, rest, keys, received, reader>>

SendKey ==
    /\ reader # "gone" /\ decoded # <<>>
    /\ Len(keys) < KeyCap
    /\ keys' = Append(keys, Head(decoded))
    /\ decoded' = Tail(decoded)
    /\ UNCHANGED <<typed, rest, pending, received, pauses, reader>>

(* case <-ctx.Done() of the same select: the key is dropped.               *)
DropKey ==
    /\ reader = "stopping" /\ decoded # <<>>
    /\ decoded' = Tail(decoded)
    /\ UNCHANGED <<typed, rest, pending, keys, received, pauses, reader>>

ReaderEnds ==
    /\ reader = "stopping" /\ decoded = <<>>
    /\ reader' = "gone"
    /\ UNCHANGED <<typed, rest, pending, decoded, keys, received, pauses>>

(* The main goroutine takes a key, or drains the channel.                  *)
TakeKey ==
    /\ keys # <<>>
    /\ received' = Append(received, Head(keys))
    /\ keys' = Tail(keys)
    /\ UNCHANGED <<typed, rest, pending, decoded, pauses, reader>>

stopInput ==
    /\ reader = "reads"
    /\ reader' = "stopping"
    /\ UNCHANGED <<typed, rest, pending, decoded, keys, received, pauses>>

InputInit ==
    /\ typed \in Inputs
    /\ rest = typed
    /\ pending = <<>> /\ decoded = <<>> /\ keys = <<>> /\ received = <<>>
    /\ pauses = {}
    /\ reader = "reads"

InputNext ==
    \/ \E n \in 1..Len(rest) : feed(n)
    \/ Pause \/ SendKey \/ DropKey \/ ReaderEnds \/ TakeKey \/ stopInput

InputSpec == InputInit /\ [][InputNext]_inputVars

-----------------------------------------------------------------------------
\* The keys of all that is typed when it is read in one piece up to each pause
\* after a lone Escape: upto[n] is for the first n bytes.
KeysOf(cuts) ==
    LET upto[n \in 0..Len(typed)] ==
          LET cut == Max({0} \cup {c \in cuts : c < n})
          IN IF n = 0 THEN <<>>
             ELSE upto[cut] \o Decode(SubSeq(typed, cut + 1, n)).keys
                            \o (IF n \in cuts THEN <<Escape>> ELSE <<>>)
    IN upto[Len(typed)]

\* How the terminal cuts the input into reads makes no difference: the keys
\* sent, followed by those of what is still to be read, are the keys of the
\* whole, in order.  Only an Escape that nothing followed for 100 ms is
\* decided by time.
ChunksDontMatter ==
    reader = "reads" =>
        received \o keys \o decoded \o Decode(pending \o rest).keys
            = KeysOf(pauses)
=============================================================================
