----------------------------- MODULE DlpRestore -----------------------------
(***************************************************************************)
(* Masking of a request and restoring of its answer: sanitize, deanonymize *)
(* and StreamRestore (inspectors/dlp.rs), the DLP half of InspectorChain   *)
(* (inspectors/chain.rs), and the two places of lib.rs that restore an     *)
(* answer: the JSON answer, and the stream, whose deltas all go through    *)
(* one StreamRestore session.                                              *)
(*                                                                         *)
(* A text is a sequence of characters.  The characters are told apart by   *)
(* what the code does with them: the two brackets, the letters sensitive   *)
(* values are made of, the words inside a token (a detector type or the    *)
(* random hex of one token, each one character here) and the rest.  What   *)
(* the regular expressions match is an input: any spans of letters, those  *)
(* of one pattern disjoint, as find_iter returns them.                     *)
(***************************************************************************)
EXTENDS Naturals, Sequences, FiniteSets, SequencesExt

CONSTANTS
    Letters,      \* characters of sensitive values
    Others,       \* characters of neither a value nor a token
    Profile,      \* the detector types, in profile order
    Hexes,        \* random parts of tokens
    Hold,         \* longest word run held back after a bracket (64)
    LastChoice,   \* choices of an answer are numbered 0..LastChoice
    Deltas,       \* texts the provider may put into one delta
    None,         \* not a choice
    MaxText,      \* bound: length of a message
    MaxMessages,  \* bound: messages of the request
    MaxFeeds      \* bound: deltas of the answer

Open == "["
Close == "]"
Types == Range(Profile)
Words == Types \cup Hexes
Char == {Open, Close} \cup Words \cup Letters \cup Others
Indices == 0..LastChoice

(* "[TYPE_hex]"; the longest one the code makes has 49 characters, so a    *)
(* token without its closing bracket fits into the 65 that are held back.  *)
Token(typ, hex) == <<Open, typ, hex, Close>>
Tokens == {Token(typ, hex) : typ \in Types, hex \in Hexes}

ASSUME DlpAssumption ==
    /\ Hold \in Nat /\ Hold >= 2
    /\ LastChoice \in Nat
    /\ None \notin Indices
    /\ Deltas \subseteq Seq(Char)
    /\ Profile \in Seq(Types)
    \* the kinds of characters are told apart
    /\ {Open, Close} \cap (Words \cup Letters \cup Others) = {}
    /\ Letters \cap (Words \cup Others) = {} /\ Words \cap Others = {}
    /\ MaxText \in Nat /\ MaxMessages \in Nat

VARIABLES
    mode,        \* inspectors.dlp.mode
    policy,      \* inspectors.dlp.restore_policy
    phase,       \* what happens to the request
    messages,    \* the payload's messages so far: written by the client, sent
    todo,        \* accepted hits that are still to be replaced in the last one
    vault,       \* token -> value
    scope,       \* tokens the request used
    carry,       \* the tail StreamRestore holds back
    out,         \* content the client got, by choice
    completion,  \* completion_text: what audit and estimate see
    feeds,       \* history: the deltas, with their choices
    holder,      \* history: the choice whose delta left the carry
    mixed        \* history: a carry came out in another choice

masking == <<messages, todo, vault, scope>>
answer == <<carry, out, completion, feeds, holder, mixed>>
vars == <<mode, policy, phase, masking, answer>>

Init ==
    /\ mode \in {"off", "log", "mask", "block"}
    /\ policy \in {"restore", "mask"}
    /\ phase = "request"
    /\ messages = <<>> /\ todo = <<>>
    /\ vault = <<>>
    /\ scope = {}
    /\ carry = <<>>
    /\ out = [c \in Indices |-> <<>>]
    /\ completion = <<>>
    /\ feeds = <<>>
    /\ holder = None
    /\ mixed = FALSE

-----------------------------------------------------------------------------
(* Masking the messages of the request.                                    *)

(* What the pattern number order may find in the message.                  *)
Spans(content) ==
    {s \in (1..Len(content)) \X (1..Len(content)) :
        s[1] =< s[2] /\ \A i \in s[1]..s[2] : content[i] \in Letters}

FindIter(content) ==
    {S \in SUBSET Spans(content) :
        \A r, s \in S : r = s \/ r[2] < s[1] \/ s[2] < r[1]}

Hits(found) ==
    UNION {{[start |-> s[1], end |-> s[2], order |-> o] : s \in found[o]}
             : o \in DOMAIN found}

Before(h, g) ==
    h.start < g.start \/ (h.start = g.start /\ h.order =< g.order)

(* Sorted by (start, order), each hit is accepted that starts behind the   *)
(* last accepted one.                                                      *)
Accepted(hits) ==
    LET sorted == CHOOSE q \in SetToSeqs(hits) :
                     \A i, j \in DOMAIN q : i =< j => Before(q[i], q[j])
        first[n \in 0..Len(sorted)] ==
            IF n = 0 THEN <<>>
            ELSE LET acc == first[n - 1] IN
                 IF acc = <<>> \/ sorted[n].start > Last(acc).end
                 THEN Append(acc, sorted[n])
                 ELSE acc
    IN first[Len(sorted)]

(* The next message of the payload.  Block and log mode mask into maps     *)
(* they throw away; block mode only looks whether the text has changed.    *)
TakeMessage(content, found) ==
    LET accepted == Accepted(Hits(found)) IN
    /\ phase = "request"
    /\ todo = <<>>
    /\ mode # "off"
    /\ Len(messages) < MaxMessages
    /\ phase' = IF mode = "block" /\ accepted # <<>> THEN "blocked" ELSE phase
    /\ messages' = Append(messages, [orig |-> content, text |-> content])
    /\ todo' = IF mode = "mask" THEN accepted ELSE <<>>
    /\ UNCHANGED <<mode, policy, vault, scope, answer>>

Spliced(s, from, to, new) ==
    SubSeq(s, 1, from - 1) \o new \o SubSeq(s, to + 1, Len(s))

\* Slip: a new token may be one the vault has already.
AnyToken(value, typ) ==
    LET existing == {t \in DOMAIN vault : vault[t] = value} IN
    IF existing # {} THEN existing ELSE {Token(typ, hex) : hex \in Hexes}

(* The tokens sanitize may use for a value: the one the vault has for it,  *)
(* or any that is not in the vault yet.                                    *)
TokensFor(value, typ) ==
    LET existing == {t \in DOMAIN vault : vault[t] = value} IN
    IF existing # {} THEN existing
    ELSE {t \in {Token(typ, hex) : hex \in Hexes} : t \notin DOMAIN vault}

(* One round of the replacement loop, from the last accepted hit down.     *)
MaskHit ==
    LET h == Last(todo)
        text == Last(messages).text
        value == SubSeq(text, h.start, h.end)
    IN  /\ phase = "request"
        /\ todo # <<>>
        /\ \E t \in TokensFor(value, Profile[h.order]) :
              /\ vault' = [u \in DOMAIN vault \cup {t} |->
                              IF u = t THEN value ELSE vault[u]]
              /\ scope' = scope \cup {t}
              /\ messages' = [messages EXCEPT ![Len(messages)].text =
                                 Spliced(@, h.start, h.end, t)]
        /\ todo' = Front(todo)
        /\ UNCHANGED <<mode, policy, phase, answer>>

-----------------------------------------------------------------------------
(* Restoring the answer.                                                   *)

Label(token) == <<Open, token[2], Close>>

(* deanonymize replaces every token of the vault, one after the other in   *)
(* no fixed order.  Tokens cannot overlap (a bracket opens and closes each *)
(* and no value contains one), so one pass from left to right is the same. *)
Restored(s, how) ==
    LET Replacement(t) ==
            IF how = "restore" /\ t \in scope THEN vault[t] ELSE Label(t)
        done[n \in 0..Len(s)] ==
            IF n = 0 THEN <<>>
            ELSE LET r == Append(done[n - 1], s[n])
                     ended == {t \in DOMAIN vault : IsSuffix(t, r)}
                 IN  IF ended = {} THEN r
                     ELSE LET t == CHOOSE t \in ended : TRUE IN
                          SubSeq(r, 1, Len(r) - Len(t)) \o Replacement(t)
    IN done[Len(s)]

(* process_response: only the first choice of a JSON answer is restored,   *)
(* and nothing when DLP is off.  The payload has been moved into the call. *)
AnswerJson(content) ==
    /\ phase = "request"
    /\ todo = <<>>
    /\ phase' = "replied"
    /\ out' = [content EXCEPT ![0] =
                  IF mode = "off" THEN @ ELSE Restored(@, policy)]
    /\ feeds' = [i \in 1..(LastChoice + 1) |-> <<i - 1, content[i - 1]>>]
    /\ messages' = <<>>
    /\ UNCHANGED <<mode, policy, todo, vault, scope, carry, completion,
                   holder, mixed>>

OpenStream ==
    /\ phase = "request"
    /\ todo = <<>>
    /\ phase' = "streaming"
    /\ messages' = <<>>
    /\ UNCHANGED <<mode, policy, todo, vault, scope, answer>>

\* Slip: one character less is held back.
PartialsShort(buf) ==
    {i \in 1..Len(buf) :
        /\ buf[i] = Open
        /\ Len(buf) - i < Hold
        /\ \A j \in (i + 1)..Len(buf) : buf[j] \in Words}

\* Slip: a bracket is held back however much follows.
PartialsUnbounded(buf) ==
    {i \in 1..Len(buf) :
        /\ buf[i] = Open
        /\ \A j \in (i + 1)..Len(buf) : buf[j] \in Words}

(* Where the trailing partial token starts: a bracket, then only words, at *)
(* most Hold of them; an overlong run is no token and is not held back.    *)
Partials(buf) ==
    {i \in 1..Len(buf) :
        /\ buf[i] = Open
        /\ Len(buf) - i =< Hold
        /\ \A j \in (i + 1)..Len(buf) : buf[j] \in Words}

HeadLength(buf) ==
    IF Partials(buf) = {} THEN Len(buf)
    ELSE (CHOOSE i \in Partials(buf) : TRUE) - 1

\* Slip: the content of the first choice is the only one written to.
DeliveredFirst(c, restored) == [out EXCEPT ![0] = @ \o restored]

Delivered(c, restored) == [out EXCEPT ![c] = @ \o restored]

(* One delta of one choice; a chunk with several choices is several of     *)
(* them.  The session does not know which choice it is fed.                *)
Feed(c, delta) ==
    LET buf == carry \o delta
        head == SubSeq(buf, 1, HeadLength(buf))
        restored == Restored(head, policy)
    IN  /\ phase = "streaming"
        /\ Len(feeds) < MaxFeeds
        /\ carry' = SubSeq(buf, HeadLength(buf) + 1, Len(buf))
        /\ out' = Delivered(c, restored)
        /\ completion' = completion \o restored
        /\ feeds' = Append(feeds, <<c, delta>>)
        /\ holder' = IF carry' = <<>> THEN None ELSE c
        /\ mixed' = (mixed \/ (carry # <<>> /\ holder # c))
        /\ UNCHANGED <<mode, policy, phase, masking>>

(* The end of the stream, with [DONE] or without: what is held back goes   *)
(* out as a delta of choice 0.                                             *)
Flush ==
    /\ phase = "streaming"
    /\ phase' = "answered"
    /\ carry' = <<>>
    /\ out' = [out EXCEPT ![0] = @ \o Restored(carry, policy)]
    /\ completion' = completion \o Restored(carry, policy)
    /\ mixed' = (mixed \/ (carry # <<>> /\ holder # 0))
    /\ holder' = None
    /\ UNCHANGED <<mode, policy, masking, feeds>>

Contents == BoundedSeq(Letters \cup Others \cup {Open}, MaxText)

Next ==
    \/ \E content \in Contents :
          \E found \in [DOMAIN Profile -> FindIter(content)] :
             TakeMessage(content, found)
    \/ MaskHit
    \/ \E content \in [Indices -> Deltas] : AnswerJson(content)
    \/ OpenStream
    \/ \E c \in Indices, delta \in Deltas : Feed(c, delta)
    \/ Flush

Spec == Init /\ [][Next]_vars

-----------------------------------------------------------------------------
(* Properties.                                                             *)

(* The carry of StreamRestore is empty, or a bracket and at most Hold      *)
(* token characters: it never grows with the answer, and it can only be    *)
(* the beginning of a token.                                               *)
TypeOK ==
    /\ mode \in {"off", "log", "mask", "block"}
    /\ policy \in {"restore", "mask"}
    /\ phase \in {"request", "blocked", "streaming", "answered",
                 "replied"}
    /\ Len(messages) =< MaxMessages
    /\ scope = DOMAIN vault
    /\ DOMAIN vault \subseteq Tokens
    /\ \A t \in DOMAIN vault : vault[t] \in Seq(Letters)
    /\ carry # <<>> =>
          /\ carry[1] = Open
          /\ Len(carry) =< Hold + 1
          /\ \A i \in 2..Len(carry) : carry[i] \in Words
    /\ \A c \in Indices : out[c] \in Seq(Char)
    /\ completion \in Seq(Char)
    /\ mixed \in BOOLEAN
    /\ holder \in Indices \cup {None}
    /\ (holder = None) <=> (carry = <<>>)

(* After every round of the replacement loop of sanitize, deanonymize      *)
(* gives the client's own text of every message back: no hit is replaced   *)
(* at a stale offset, no token is destroyed by another pattern's hit, and  *)
(* no token of an earlier message is given to another value.               *)
MaskingIsLossless ==
    \A i \in DOMAIN messages :
        Restored(messages[i].text, "restore") = messages[i].orig

Seen == FlattenSeq([i \in DOMAIN feeds |-> feeds[i][2]])
SeenBy(c) == FlattenSeq([i \in DOMAIN feeds |->
                            IF feeds[i][1] = c THEN feeds[i][2] ELSE <<>>])

(* What completion_text holds, with the tail that is still held back, is   *)
(* the text received so far restored as a whole: it makes no difference    *)
(* where the provider cut the answer into chunks, a token is never emitted *)
(* in halves, and nothing is dropped at the end of the stream.             *)
ChunksDontMatter ==
    phase \in {"streaming", "answered"} =>
       completion \o Restored(carry, policy) = Restored(Seen, policy)

(* As long as no held-back tail came out in another choice's delta, every  *)
(* choice of a stream reads as its own deltas restored as a whole.  The    *)
(* choices share one buffer (lib.rs passes every delta to one session), so *)
(* without that proviso it does not hold.                                  *)
ChoicesKeepTheirText ==
    phase \in {"streaming", "answered"} /\ ~mixed =>
       \A c \in Indices :
          out[c] \o (IF holder = c THEN Restored(carry, policy) ELSE <<>>)
             = Restored(SeenBy(c), policy)

=============================================================================
