------------------------ MODULE ConversationHistory ------------------------
(***************************************************************************)
(* A Conversation: its Messages, the Events of its Runs, its title, its    *)
(* deletion, and the search a Turn makes in its history. The search reads  *)
(* Messages and Events one after the other, takes the direct matches and   *)
(* their neighbours, and fits them into the frozen limits. Titles are      *)
(* generated by a model while the user may rename the Conversation.        *)
(* Text is a size and whether a keyword occurs in it; time is the order of *)
(* arrival.                                                                *)
(***************************************************************************)
EXTENDS Integers, Sequences, FiniteSets, FiniteSetsExt, SequencesExt

CONSTANTS
    Sizes,          \* sizes of a text, in characters
    Marker,         \* size of the truncation marker
    NeighborWindow, MaxResults, MaxCharacters, MaxHistoryTokens,   \* frozen limits
    MaxItems        \* bound: Messages and Events of the Conversation

ASSUME HistoryAssumption ==
    /\ Sizes \subseteq Nat /\ {Marker, NeighborWindow, MaxItems} \subseteq Nat
    /\ {MaxResults, MaxCharacters, MaxHistoryTokens} \subseteq Nat \ {0}

\* The Run that searches and an earlier one.
ThisRun == "this"
RunIDs == {ThisRun, "earlier"}

VARIABLES
    messages,   \* sequence of [hit, size, at]
    historyEvents,     \* sequence of [run, evidence, hit, size, at]
    deleted,
    adding,     \* a Message whose Conversation was found and is not inserted yet
    reading,    \* the Messages a search has read, until it reads the Events
    found,      \* the last search: [items, direct, messages, events]
    title,      \* who wrote it: "temporary", "generated" or "manual"
    titling     \* a title is being generated

historyVars == <<messages, historyEvents, deleted, adding, reading, found, title, titling>>

NoMessage == [hit |-> FALSE, size |-> 0, at |-> 0]
NoReading == [set |-> FALSE, messages |-> <<>>]
NoResult == [items |-> <<>>, direct |-> {}, messages |-> <<>>, events |-> <<>>]

HistoryInit ==
    /\ messages = <<>> /\ historyEvents = <<>> /\ deleted = FALSE
    /\ adding = NoMessage /\ reading = NoReading /\ found = NoResult
    /\ title = "temporary" /\ titling = FALSE

historyClock == Len(messages) + Len(historyEvents) + 1

----------------------------------------------------------------------------
(* Search *)

estimateTokens(n) == IF n = 0 THEN 0 ELSE Max({1, (n + 3) \div 4})

\* Only Events that carry evidence are searched by keyword.
defaultSearchableEventType(e) == e.evidence

\* A candidate: its source and place there, its priority and whether it matched.
candidate(source, i, priority, direct) == [source |-> source, i |-> i, priority |-> priority, direct |-> direct]

\* Everything but the current input, which is the latest Message.
messageCandidates(ms) ==
    {candidate("message", i, 2, TRUE) : i \in {j \in 1..(Len(ms) - 1) : ms[j].hit}}

eventCandidates(es) ==
    {candidate("event", i, 2, TRUE) :
        i \in {j \in DOMAIN es : es[j].run # ThisRun /\ defaultSearchableEventType(es[j]) /\ es[j].hit}}

neighbours(i) == {j \in (i - NeighborWindow)..(i + NeighborWindow) : j # i}
historyDistance(i, j) == IF i < j THEN j - i ELSE i - j

\* The neighbours of the matches, under the same exclusions.
adjacentMessageCandidates(ms, direct) ==
    {candidate("message", p[2], 3 + historyDistance(p[1], p[2]), FALSE) :
        p \in {q \in {c.i : c \in direct} \X (1..(Len(ms) - 1)) : q[2] \in neighbours(q[1])}}

adjacentEventCandidates(es, direct) ==
    {candidate("event", p[2], 3 + historyDistance(p[1], p[2]), FALSE) :
        p \in {q \in {c.i : c \in direct} \X DOMAIN es :
                  /\ q[2] \in neighbours(q[1])
                  /\ es[q[2]].run # ThisRun /\ defaultSearchableEventType(es[q[2]])}}

\* One candidate per source: the match itself if it is one, else the neighbour of
\* the first match around it.
deduplicate(direct, adjacent) ==
    direct \cup {c \in adjacent :
        /\ \A d \in direct : <<d.source, d.i>> # <<c.source, c.i>>
        /\ \A b \in adjacent : <<b.source, b.i>> = <<c.source, c.i>> =>
              \/ b = c
              \/ \E m \in direct : /\ m.source = c.source /\ historyDistance(m.i, c.i) = c.priority - 3
                                   /\ \A k \in direct : k.source = c.source /\ historyDistance(k.i, c.i) = b.priority - 3 => m.i < k.i}

at(c, ms, es) == IF c.source = "message" THEN ms[c.i].at ELSE es[c.i].at
size(c, ms, es) == IF c.source = "message" THEN ms[c.i].size ELSE es[c.i].size

\* Mutant: the oldest first.
rankedByTime(cs, ms, es) == SetToSortSeq(cs, LAMBDA c, d : at(c, ms, es) < at(d, ms, es))
\* Matches before neighbours, near before far, then the older first.
historyRanked(cs, ms, es) ==
    SetToSortSeq(cs, LAMBDA c, d : \/ c.priority < d.priority
                                   \/ c.priority = d.priority /\ at(c, ms, es) < at(d, ms, es))

\* A text that does not fit keeps as much of its head and tail as fits beside the
\* truncation marker; the marker is always there.
boundText(n, chars, tokens) ==
    IF n <= chars /\ estimateTokens(n) <= tokens THEN n
    ELSE Marker + Max({0} \cup {k \in 0..Min({n, chars}) :
                          k + Marker <= chars /\ estimateTokens(k + Marker) <= tokens})

\* Takes candidates until the results, the characters or the tokens are used up.
applyLimits(cs, ms, es) ==
    FoldLeft(LAMBDA acc, c :
                LET chars == MaxCharacters - acc.chars
                    tokens == MaxHistoryTokens - acc.tokens
                    n == boundText(size(c, ms, es), chars, tokens)
                IN  IF acc.full \/ Len(acc.items) >= MaxResults \/ chars <= 0 \/ tokens <= 0
                    THEN [acc EXCEPT !.full = TRUE]
                    ELSE IF n = 0 THEN acc
                    ELSE [acc EXCEPT !.items = Append(@, [c |-> c, size |-> n]), !.chars = @ + n, !.tokens = @ + estimateTokens(n)],
             [items |-> <<>>, chars |-> 0, tokens |-> 0, full |-> FALSE], cs).items

\* The results go to the context in order of time.
HistorySearch(ms, es) ==
    LET dm == messageCandidates(ms)
        de == eventCandidates(es)
        all == deduplicate(dm \cup de, adjacentMessageCandidates(ms, dm) \cup adjacentEventCandidates(es, de))
        taken == applyLimits(historyRanked(all, ms, es), ms, es)
    IN  SetToSortSeq(ToSet(taken), LAMBDA a, b : at(a.c, ms, es) < at(b.c, ms, es))

\* retrieveSessionHistory: Messages first, Events later.
ListMessages ==
    /\ ~reading.set /\ ~deleted /\ messages # <<>>
    /\ reading' = [set |-> TRUE, messages |-> messages] /\ found' = NoResult
    /\ UNCHANGED <<messages, historyEvents, deleted, adding, title, titling>>

ListConversationRunEvents ==
    /\ reading.set
    /\ found' = [items |-> HistorySearch(reading.messages, historyEvents),
                 direct |-> messageCandidates(reading.messages) \cup eventCandidates(historyEvents),
                 messages |-> reading.messages, events |-> historyEvents]
    /\ reading' = NoReading
    /\ UNCHANGED <<messages, historyEvents, deleted, adding, title, titling>>

----------------------------------------------------------------------------
(* The Conversation *)

\* The Conversation is looked up before the transaction that inserts.
AddMessage ==
    /\ adding = NoMessage /\ ~deleted /\ historyClock <= MaxItems
    /\ \E hit \in BOOLEAN, n \in Sizes : adding' = [hit |-> hit, size |-> n, at |-> historyClock]
    /\ found' = NoResult
    /\ UNCHANGED <<messages, historyEvents, deleted, reading, title, titling>>

\* The foreign key refuses a row of a Conversation that is gone.
messageInserted == ~deleted

InsertMessage ==
    /\ adding # NoMessage
    /\ messages' = IF messageInserted THEN Append(messages, [adding EXCEPT !.at = historyClock]) ELSE messages
    /\ adding' = NoMessage
    /\ found' = NoResult
    /\ UNCHANGED <<historyEvents, deleted, reading, title, titling>>

\* A Run's row goes with its Conversation, and its Events with the Run.
CreateRunEvent ==
    /\ ~deleted /\ historyClock <= MaxItems
    /\ \E r \in RunIDs, evidence, hit \in BOOLEAN, n \in Sizes :
          /\ r # ThisRun => \A i \in DOMAIN historyEvents : historyEvents[i].run # ThisRun
          /\ ~evidence => ~hit /\ n = Min(Sizes)    \* what is not searched is all alike
          /\ historyEvents' = Append(historyEvents, [run |-> r, evidence |-> evidence, hit |-> hit, size |-> n, at |-> historyClock])
    /\ found' = NoResult
    /\ UNCHANGED <<messages, deleted, adding, reading, title, titling>>

DeleteConversation ==
    /\ ~deleted
    /\ deleted' = TRUE /\ messages' = <<>> /\ historyEvents' = <<>>
    /\ found' = NoResult
    /\ UNCHANGED <<adding, reading, title, titling>>

\* PATCH of the title.
UpdateConversationTitle ==
    /\ ~deleted /\ title # "manual"
    /\ title' = "manual"
    /\ found' = NoResult
    /\ UNCHANGED <<messages, historyEvents, deleted, adding, reading, titling>>

\* SummarizeTitle: only a temporary title is replaced, and the model takes its
\* time.
shouldAutoTitle == title = "temporary"

SummarizeTitle ==
    /\ ~deleted /\ ~titling /\ messages # <<>> /\ shouldAutoTitle
    /\ titling' = TRUE
    /\ found' = NoResult
    /\ UNCHANGED <<messages, historyEvents, deleted, adding, reading, title>>

TitleGenerated ==
    /\ titling
    /\ titling' = FALSE
    /\ title' \in IF deleted THEN {title} ELSE {title, "generated"}
    /\ found' = NoResult
    /\ UNCHANGED <<messages, historyEvents, deleted, adding, reading>>

HistoryNext ==
    \/ ListMessages \/ ListConversationRunEvents
    \/ AddMessage \/ InsertMessage \/ CreateRunEvent \/ DeleteConversation
    \/ UpdateConversationTitle \/ SummarizeTitle \/ TitleGenerated

HistorySpec == HistoryInit /\ [][HistoryNext]_historyVars

----------------------------------------------------------------------------
(* Properties *)

\* What a search returns is old: nothing of the Run that asks, by match or by
\* neighbourhood, not the current input, each source once, oldest first.
ResultsAreOld ==
    LET items == found.items IN
    /\ \A k \in DOMAIN items :
          LET c == items[k].c IN
          IF c.source = "message" THEN c.i < Len(found.messages) ELSE found.events[c.i].run # ThisRun
    /\ \A k, l \in DOMAIN items : k < l =>
          /\ <<items[k].c.source, items[k].c.i>> # <<items[l].c.source, items[l].c.i>>
          /\ at(items[k].c, found.messages, found.events) <= at(items[l].c, found.messages, found.events)

\* However tight the limits, a neighbour never takes the place of a match.
MatchesComeFirst ==
    (\E k \in DOMAIN found.items : ~found.items[k].c.direct) =>
        \A d \in found.direct : size(d, found.messages, found.events) > 0 =>
            \E k \in DOMAIN found.items : found.items[k].c = d

\* A deleted Conversation leaves nothing behind, whatever was under way.
DeletedIsEmpty == deleted => messages = <<>> /\ historyEvents = <<>>

\* The test's "hard limits": the results together stay within MaxCharacters and
\* MaxHistoryTokens.
HardLimitsApply ==
    /\ FoldLeft(LAMBDA n, x : n + x.size, 0, found.items) <= MaxCharacters
    /\ FoldLeft(LAMBDA n, x : n + estimateTokens(x.size), 0, found.items) <= MaxHistoryTokens

\* A search of the past finds the past and what matched in it first: the first three parts above.
HistorySafe == ResultsAreOld /\ MatchesComeFirst /\ DeletedIsEmpty
=============================================================================
