------------------------------ MODULE ChatPoller ------------------------------
(***************************************************************************)
(* The YouTube live chat poller, orchestrator/youtube_chat.py: a loop that *)
(* makes sure it has an access token, finds the chat of the broadcast that *)
(* is on the air, and publishes the messages that arrive after it joined.  *)
(*                                                                         *)
(* Each request is an await, hence an action of its own.  A cycle ends     *)
(* with a sleep, after an error too; how long it is (the interval YouTube  *)
(* asks for, 30 s and doubling after errors, minutes when off the air,     *)
(* longer when the quota is used up) decides nothing else, so every sleep  *)
(* just ends at some time (Wake).                                          *)
(*                                                                         *)
(* External, modelled from how the code uses it: YouTube, which answers a  *)
(* page of messages with the token of the next page, and Google's OAuth.   *)
(***************************************************************************)
EXTENDS Integers, Sequences, SequencesExt, FiniteSets

CONSTANTS
    Users,         \* who writes in the chat
    Texts,         \* what they write
    MaxPosts,      \* bound on the messages
    MaxBroadcasts, \* bound on the broadcasts
    FailCap,       \* refresh failures that open the circuit (5)
    NetFaults      \* which of AllNetFaults may happen

AllNetFaults == {"oauth", "revoked", "quota", "http", "ends"}

ASSUME ChatPollerAssumption ==
    /\ {MaxPosts, MaxBroadcasts} \subseteq Nat
    /\ FailCap \in Nat \ {0}
    /\ NetFaults \subseteq AllNetFaults

VARIABLES
    at,         \* the step of _tick: "sleep", "token", "discover" or "poll"
    token,      \* "none" (or about to expire), "good", or "dead": refused, not known
    failures,   \* _refresh_failures
    circuit,    \* _refresh_circuit_open_until: "open" until its cool-down is over
    chatId,     \* _live_chat_id: the broadcast it belongs to, 0 for None
    cursor,     \* _next_page_token: the last message of the pages read
    seeded,     \* _seeded
    onAir,      \* the broadcast that is on the air, 0 if none
    broadcasts, \* how many there were
    posts,      \* every message so far: its broadcast, user and text
    published   \* the messages published, in order
tokenVars == <<token, failures, circuit>>
chatVars == <<chatId, cursor, seeded>>
youtube == <<onAir, broadcasts, posts>>
pollerVars == <<at, tokenVars, chatVars, youtube, published>>

Post == [broadcast : 1 .. MaxBroadcasts, user : Users, text : Texts]

PollerTypeOK ==
    /\ at \in {"sleep", "token", "discover", "poll"}
    /\ token \in {"none", "good", "dead"}
    /\ failures \in 0 .. FailCap + 1
    /\ circuit \in {"closed", "open"}
    /\ chatId \in 0 .. MaxBroadcasts
    /\ cursor \in 0 .. MaxPosts
    /\ seeded \in BOOLEAN
    /\ onAir \in 0 .. MaxBroadcasts
    /\ broadcasts \in 0 .. MaxBroadcasts
    /\ posts \in Seq(Post) /\ Len(posts) <= MaxPosts
    /\ published \in Seq(DOMAIN posts)

(* A poller as the suite constructs it. *)
FreshPoller ==
    /\ at = "sleep"
    /\ token = "none" /\ failures = 0 /\ circuit = "closed"
    /\ chatId = 0 /\ cursor = 0 /\ seeded = FALSE
PollerInit ==
    /\ FreshPoller
    /\ onAir = 0 /\ broadcasts = 0 /\ posts = <<>> /\ published = <<>>

-------------------------------------------------------------------------------
(* How a cycle of _run ends, well or with an error that is logged. *)
CycleDone == at' = "sleep"

(***************************************************************************)
(* _refresh_access_token: what may come of a request for a token.  A       *)
(* refusal counts towards the circuit breaker; a failure of the network is *)
(* an exception that counts for nothing; an answer without a token counts  *)
(* as a success.                                                           *)
(***************************************************************************)
TokenState(t, f, c) == [token |-> t, failures |-> f, circuit |-> c]
(* The counter is not reset when it reaches the cap; beyond it only that   *)
(* it is above matters.                                                    *)
Refused ==
    LET f == failures + 1
    IN  TokenState(token, IF f > FailCap THEN FailCap + 1 ELSE f,
                   IF f >= FailCap THEN "open" ELSE circuit)
RefreshResults ==
    {TokenState("good", 0, "closed")}
    \cup (IF NetFaults \cap {"oauth", "revoked"} # {} THEN {Refused} ELSE {})
    \cup (IF "http" \in NetFaults
          THEN {TokenState(token, failures, circuit), TokenState(token, 0, "closed")} ELSE {})
TakeToken(r) ==
    token' = r.token /\ failures' = r.failures /\ circuit' = r.circuit
KeepToken == UNCHANGED tokenVars

(***************************************************************************)
(* _authed_get: "ok" when the request is answered.  A 401, for a token     *)
(* that was revoked or has expired in the middle of a cycle, is retried    *)
(* once after a refresh; the circuit is not looked at here.                *)
(***************************************************************************)
Answers == {"ok"} \cup (NetFaults \cap {"quota", "http"})
Get(answer) ==
    \/ token = "good" /\ answer \in Answers /\ KeepToken
    \/ /\ token # "good"
       /\ \E r \in RefreshResults :
            /\ TakeToken(r)
            /\ IF r.token = "good" THEN answer \in Answers ELSE answer = "http"
-------------------------------------------------------------------------------
(* _tick, from the end of a sleep to the first request: a token that is    *)
(* not about to expire is taken as it is; otherwise it is refreshed, and   *)
(* while the circuit is open the cycle ends there.                         *)
Proceed == at' = (IF chatId = 0 THEN "discover" ELSE "poll")
Wake ==
    /\ at = "sleep"
    /\ \/ token # "none" /\ Proceed
       \/ token = "none" /\ circuit # "open" /\ at' = "token"
    /\ UNCHANGED <<tokenVars, chatVars, youtube, published>>

(* The answer to _ensure_access_token's refresh. *)
TokenAnswered ==
    /\ at = "token"
    /\ \E r \in RefreshResults :
         /\ TakeToken(r)
         /\ IF r.token = "good" THEN Proceed ELSE CycleDone
    /\ UNCHANGED <<chatVars, youtube, published>>

(* _ensure_live_chat_id, while no chat is known: a new one starts unseeded. *)
Discover ==
    /\ at = "discover"
    /\ \E answer \in AllNetFaults \cup {"ok"} :
         /\ Get(answer)
         /\ \/ answer # "ok" /\ CycleDone /\ UNCHANGED chatVars
            \/ /\ answer = "ok" /\ onAir = 0
               /\ CycleDone /\ UNCHANGED chatVars
            \/ /\ answer = "ok" /\ onAir # 0
               /\ chatId' = onAir /\ cursor' = 0 /\ seeded' = FALSE
               /\ at' = "poll"
    /\ UNCHANGED <<youtube, published>>

(* The messages of a page, in order: those of the chat after the cursor. *)
Arrived == {i \in DOMAIN posts : i > cursor /\ posts[i].broadcast = chatId}
Page ==
    CHOOSE s \in [1 .. Cardinality(Arrived) -> Arrived] :
        \A i, j \in DOMAIN s : i < j => s[i] < s[j]
PageEnd == Len(posts)

(***************************************************************************)
(* _poll_messages.  A chat that is not found any more is forgotten and     *)
(* looked for again soon.  The first page after a discovery only seeds the *)
(* cursor; the messages of later pages are published one after the other   *)
(* without giving up control, the cursor moved before the first of them.   *)
(***************************************************************************)
ChatGone ==
    /\ at = "poll" /\ onAir # chatId
    /\ Get("ok")
    /\ chatId' = 0 /\ cursor' = 0 /\ seeded' = FALSE
    /\ CycleDone
    /\ UNCHANGED <<youtube, published>>
Seed ==
    /\ at = "poll" /\ onAir = chatId /\ ~seeded
    /\ Get("ok")
    /\ cursor' = PageEnd /\ seeded' = TRUE
    /\ CycleDone
    /\ UNCHANGED <<chatId, youtube, published>>
Publish_CursorStays ==
    /\ at = "poll" /\ onAir = chatId /\ seeded
    /\ Get("ok")
    /\ published' = published \o Page
    /\ CycleDone
    /\ UNCHANGED <<chatVars, youtube>>
Publish ==
    /\ at = "poll" /\ onAir = chatId /\ seeded
    /\ Get("ok")
    /\ cursor' = PageEnd
    /\ published' = published \o Page
    /\ CycleDone
    /\ UNCHANGED <<chatId, seeded, youtube>>
PollFails ==
    /\ at = "poll"
    /\ \E answer \in {"quota", "http"} : Get(answer)
    /\ CycleDone
    /\ UNCHANGED <<chatVars, youtube, published>>

-------------------------------------------------------------------------------
(* The environment. *)

(* An hour passes: the token is due for a refresh, or the circuit's cool-  *)
(* down is over; the failures counted so far stay counted.                 *)
TokenExpires ==
    /\ token # "none" /\ token' = "none"
    /\ UNCHANGED <<at, failures, circuit, chatVars, youtube, published>>
CircuitCools ==
    /\ circuit = "open" /\ circuit' = "closed"
    /\ UNCHANGED <<at, token, failures, chatVars, youtube, published>>

(* Access is revoked: the token in use is refused from now on. *)
TokenRevoked ==
    /\ "revoked" \in NetFaults /\ token = "good" /\ token' = "dead"
    /\ UNCHANGED <<at, failures, circuit, chatVars, youtube, published>>

GoLive ==
    /\ onAir = 0 /\ broadcasts < MaxBroadcasts
    /\ onAir' = broadcasts + 1 /\ broadcasts' = broadcasts + 1
    /\ UNCHANGED <<at, tokenVars, chatVars, posts, published>>
GoOffAir ==
    /\ "ends" \in NetFaults /\ onAir # 0
    /\ onAir' = 0
    /\ UNCHANGED <<at, tokenVars, chatVars, broadcasts, posts, published>>
SomebodyWrites ==
    /\ onAir # 0 /\ Len(posts) < MaxPosts
    /\ \E user \in Users, text \in Texts :
         posts' = Append(posts, [broadcast |-> onAir, user |-> user, text |-> text])
    /\ UNCHANGED <<at, tokenVars, chatVars, onAir, broadcasts, published>>
===============================================================================
