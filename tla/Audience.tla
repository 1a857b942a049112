------------------------------- MODULE Audience -------------------------------
(***************************************************************************)
(* What the audience of the live stream can do, and what becomes of it:    *)
(* the chat poller publishes messages (ChatPoller), the coordinator of     *)
(* orchestrator/audience.py parses the commands in them and routes them to *)
(* the predictions (Predictions), to the sentiment window and to the queue *)
(* of pin requests, which an operator approves or rejects over             *)
(* api/audience.py.                                                        *)
(*                                                                         *)
(* A message is handed over in the same step as it is published: neither   *)
(* the bus nor the pin lock is ever held across an await.                  *)
(***************************************************************************)
EXTENDS ChatPoller, Predictions

CONSTANTS
    PinCap,   \* PIN_QUEUE_CAP (20)
    MaxMoods, \* bound on the votes in the sentiment window
    Overrides, \* agents an operator may pick by hand; "" for none
    Means(_, _) \* what stands after "!pin" is the id of an agent, or in its name

ASSUME AudienceAssumption ==
    /\ PinCap \in Nat \ {0} /\ MaxMoods \in Nat
    /\ Users \subseteq Voters /\ Overrides \subseteq Agents \cup {Unknown}
    /\ \A text \in Texts : text.word = "pick" => text.arg \in Picks \cup {""}

VARIABLES
    pins,      \* _pin_by_id: the pending requests, oldest first
    pinned,    \* history: how each request was resolved, in order; an approved one
               \* puts its agent, if it has one, in the spotlight
    moods,     \* _votes, the sentiment window: directions, oldest first
    since      \* history: how many messages were published before the board was made
pinVars == <<pins, pinned>>
audienceVars == <<predictionVars, since, pinVars, moods>>
vars == <<pollerVars, audienceVars>>

(* parse_command.  A text is a record: does it start with "!", its first   *)
(* word, and what follows; words are matched whatever their case.          *)
Command(kind, arg) == [kind |-> kind, arg |-> arg]
NoCommand == Command("none", "")
Parse(text) ==
    IF ~text.bang THEN NoCommand
    ELSE CASE text.word \in {"vote", "spy"} /\ text.arg \in Directions -> Command(text.word, text.arg)
           [] text.word \in {"pin", "pick"} /\ text.arg # "" -> Command(text.word, text.arg)
           [] OTHER -> Command("unknown", "")

(* _resolve_agent_query: one agent that is meant, always the same, or none.*)
Resolve(query) ==
    IF \E a \in Agents : Means(query, a) THEN CHOOSE a \in Agents : Means(query, a) ELSE Unknown

Request == [post : 1 .. MaxPosts, agent : Agents \cup {Unknown}]
Resolution == [post : 1 .. MaxPosts, how : {"approved", "rejected"}, agent : Agents \cup {Unknown}]
TypeOK ==
    /\ PollerTypeOK /\ PredictionsTypeOK
    /\ pins \in Seq(Request) /\ Len(pins) <= PinCap
    /\ pinned \in Seq(Resolution)
    /\ moods \in Seq(Directions) /\ Len(moods) <= MaxMoods
    /\ since \in 0 .. MaxPosts

Init ==
    /\ PollerInit /\ PredictionsInit
    /\ pins = <<>> /\ pinned = <<>>
    /\ moods = <<>>
    /\ since = 0

-------------------------------------------------------------------------------
(* _handle_pin: the oldest requests make room. *)
RequestPin_Uncapped(queue, i, query) == Append(queue, [post |-> i, agent |-> Resolve(query)])
RequestPin(queue, i, query) ==
    Append(IF Len(queue) >= PinCap THEN SubSeq(queue, 2, Len(queue)) ELSE queue,
           [post |-> i, agent |-> Resolve(query)])

(***************************************************************************)
(* on_chat_message for one published message: which of the board, the pin  *)
(* queue and the sentiment window it changes.                              *)
(***************************************************************************)
Desk == [round |-> round, pins |-> pins, moods |-> moods]
Route(i, desk, debounced) ==
    LET user == posts[i].user
        cmd  == Parse(posts[i].text)
    IN  CASE cmd.kind = "pick" ->
               [desk EXCEPT !.round = RecordVote(@, "pick-winner", user, cmd.arg, debounced)]
          [] cmd.kind = "spy" ->
               [desk EXCEPT !.round = RecordVote(@, "spy-direction", user, cmd.arg, debounced)]
          [] cmd.kind = "pin"  -> [desk EXCEPT !.pins = RequestPin(@, i, cmd.arg)]
          [] cmd.kind = "vote" -> [desk EXCEPT !.moods = Append(@, cmd.arg)]
          [] OTHER -> desk

(* Publish: every message of a page, in order. *)
Routed(debounced) == FoldLeft(LAMBDA d, i : Route(i, d, debounced), Desk, Page)
PublishAndRoute ==
    /\ Publish
    /\ \E debounced \in BOOLEAN :
         LET desk == Routed(debounced)
         IN  /\ round' = desk.round /\ pins' = desk.pins
             /\ Len(desk.moods) <= MaxMoods /\ moods' = desk.moods
    /\ UNCHANGED <<clockVars, dated, lastReset, baseline, since, pinned>>

(* _evict_expired: votes leave the window after five minutes, from the     *)
(* left; the next publication, at the latest the heartbeat's, counts those *)
(* that are left.                                                          *)
EvictExpired ==
    /\ moods # <<>> /\ moods' = Tail(moods)
    /\ UNCHANGED <<pollerVars, predictionVars, since, pinVars>>

-------------------------------------------------------------------------------
(* api/audience.py.  The operator acts on a request seen some time ago; a  *)
(* request that is not pending any more is answered with 404.              *)
Pending(i) == \E k \in DOMAIN pins : pins[k].post = i
PinOf(i) == CHOOSE k \in DOMAIN pins : pins[k].post = i
WithoutRequest(i) == RemoveAt(pins, PinOf(i))

ResolvePin(i, how, override) ==
    /\ Pending(i)
    /\ pins' = WithoutRequest(i)
    /\ pinned' = Append(pinned,
            [post |-> i, how |-> how,
             agent |-> IF override # Unknown THEN override ELSE pins[PinOf(i)].agent])
    /\ UNCHANGED <<pollerVars, predictionVars, since, moods>>
ApprovePin(i, override) == ResolvePin(i, "approved", override)
RejectPin(i) == ResolvePin(i, "rejected", Unknown)

(* The process starts again: every sidecar is constructed anew. *)
Restart ==
    /\ at' = "sleep"
    /\ token' = "none" /\ failures' = 0 /\ circuit' = "closed"
    /\ chatId' = 0 /\ cursor' = 0 /\ seeded' = FALSE
    /\ BoardRestarts /\ since' = Len(published)
    /\ pins' = <<>> /\ moods' = <<>>
    /\ UNCHANGED <<youtube, published, pinned>>

-------------------------------------------------------------------------------
Next ==
    \/ Wake /\ UNCHANGED audienceVars
    \/ TokenAnswered /\ UNCHANGED audienceVars
    \/ Discover /\ UNCHANGED audienceVars
    \/ ChatGone /\ UNCHANGED audienceVars
    \/ Seed /\ UNCHANGED audienceVars
    \/ PublishAndRoute
    \/ PollFails /\ UNCHANGED audienceVars
    \/ TokenExpires /\ UNCHANGED audienceVars
    \/ CircuitCools /\ UNCHANGED audienceVars
    \/ TokenRevoked /\ UNCHANGED audienceVars
    \/ GoLive /\ UNCHANGED audienceVars
    \/ GoOffAir /\ UNCHANGED audienceVars
    \/ SomebodyWrites /\ UNCHANGED audienceVars
    \/ /\ BoardTicks
       /\ since' = IF dated' # dated THEN Len(published) ELSE since
       /\ UNCHANGED <<pollerVars, pinVars, moods>>
    \/ ClockAdvances /\ UNCHANGED <<pollerVars, since, pinVars, moods>>
    \/ EvictExpired
    \/ \E i \in DOMAIN posts, agent \in Overrides : ApprovePin(i, agent)
    \/ \E i \in DOMAIN posts : RejectPin(i)
    \/ Restart

Spec == Init /\ [][Next]_vars

-------------------------------------------------------------------------------
(* A message is published at most once and in the order of the chat, over   *)
(* broadcasts, discoveries and restarts.                                    *)
PublishedOnce == \A i, j \in DOMAIN published : i < j => published[i] < published[j]

(* What an open board has for a voter is the last valid answer among the    *)
(* messages published since the board was made, and nothing else.           *)
AnswersTo(id, voter) ==
    LET kind == IF id = "spy-direction" THEN "spy" ELSE "pick"
    IN  {k \in since + 1 .. Len(published) :
            LET post == posts[published[k]] IN post.user = voter /\ Parse(post.text).kind = kind}
LastWordCounts ==
    \A id \in Ids, voter \in Voters :
        round[id].status = "open" =>
            round[id].voters[voter] =
                (IF AnswersTo(id, voter) = {} THEN Unknown
                 ELSE Parse(posts[published[Max(AnswersTo(id, voter))]].text).arg)

(* However many operators answer a pin request, it is resolved once.        *)
PinsResolvedOnce ==
    /\ \A i, j \in DOMAIN pinned : pinned[i].post = pinned[j].post => i = j
    /\ \A i \in DOMAIN pinned : ~Pending(pinned[i].post)

(* A full queue forgets the oldest requests: a request newer than a pending *)
(* one is pending or was resolved.                                          *)
NewestPinsStay ==
    \A i, j \in Range(published) :
        Pending(i) /\ j > i /\ Parse(posts[j].text).kind = "pin" =>
            Pending(j) \/ \E k \in DOMAIN pinned : pinned[k].post = j

(* A vote round is fair: every voter's last word before the lock counts    *)
(* once, the board is the one of the hour, viewers see what it decided and *)
(* nothing changes afterwards (the properties of Predictions, and          *)
(* LastWordCounts).                                                        *)
VotesAreCounted ==
    /\ [](TallyCounts /\ NoWalkthrough /\ BoardFollowsTheDay /\ DecidedIsShown /\ LastWordCounts)
    /\ VotesFreeze

(* What a viewer writes is published once, and a pin request is answered   *)
(* once or pushed off by newer ones (the three above).                     *)
AnsweredOnce == PublishedOnce /\ PinsResolvedOnce /\ NewestPinsStay
===============================================================================
