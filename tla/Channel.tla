------------------------------- MODULE Channel ------------------------------
(***************************************************************************)
(* channel of c7threadcom.hpp: two pipe1s, one for requests and one for    *)
(* replies, and a counter of those who use them.  A thread sends requests, *)
(* some of them ahead of their replies, the other answers them; each       *)
(* leaves by detach, which waits until all have left, and may abort the    *)
(* channel.                                                                *)
(***************************************************************************)
EXTENDS Pipe1

CONSTANTS
    Ahead,    \* requests the sender has out at a time
    MaxReq,   \* bound: requests
    MayAbort

\* Each pipe holds one element and the receiver has one in hand: a sender that has four
\* requests out may find all of them full, and waits for ever.
ChannelAssumption ==
    /\ Pipes = {"request", "reply"} /\ Threads = {"sender", "receiver"}
    /\ Ahead \in 1 .. 3 /\ MaxReq \in Nat /\ MayAbort \in BOOLEAN

VARIABLES
    user,     \* user_.counter_
    leaving,  \* the threads on the condition variable of user_
    do,       \* what each thread does
    hand,     \* the request the receiver has to answer
    asked, replies  \* history: requests sent; replies received

linkVars == <<user, leaving, do, hand, asked, replies>>
chanVars == <<pipeVars, linkVars>>

\* Both threads are attached.
ChannelInit ==
    /\ PipeInit
    /\ user = 2 /\ leaving = {}
    /\ do = [sender |-> "choose", receiver |-> "recv_request"]
    /\ hand = 0
    /\ asked = 0 /\ replies = <<>>

Does(t, d)  == do[t] = d /\ Awake(t)
Turns(t, d) == do' = [do EXCEPT ![t] = d]
-----------------------------------------------------------------------------
(* The sender                                                              *)

choose ==
    /\ Does("sender", "choose")
    /\ \/ asked - Len(replies) < Ahead /\ asked < MaxReq /\ Turns("sender", "send_request")
       \/ asked > Len(replies) /\ Turns("sender", "recv_reply")
       \/ Turns("sender", "close_request")
    /\ UNCHANGED <<pipeVars, user, leaving, hand, asked, replies>>

send_request ==
    /\ Does("sender", "send_request")
    /\ \/ put_wait("sender", "request") /\ UNCHANGED <<do, asked>>
       \/ put_ok("request", asked + 1) /\ asked' = asked + 1 /\ Turns("sender", "choose")
       \/ put_refused("request") /\ Turns("sender", "detach") /\ UNCHANGED asked
    /\ UNCHANGED <<user, leaving, hand, replies>>

\* After close_request the sender takes what still comes, up to CLOSED.
recv_reply(d) ==
    /\ d \in {"recv_reply", "drain"} /\ Does("sender", d)
    /\ \/ get_wait("sender", "reply") /\ UNCHANGED <<do, replies>>
       \/ /\ get_ok("reply")
          /\ replies' = Append(replies, data["reply"])
          /\ Turns("sender", IF d = "drain" THEN d ELSE "choose")
       \/ get_refused("reply") /\ Turns("sender", "detach") /\ UNCHANGED replies
    /\ UNCHANGED <<user, leaving, hand, asked>>

close_request ==
    /\ Does("sender", "close_request")
    /\ close("request")
    /\ Turns("sender", "drain")
    /\ UNCHANGED <<user, leaving, hand, asked, replies>>

(* The receiver                                                            *)

recv_request ==
    /\ Does("receiver", "recv_request")
    /\ \/ get_wait("receiver", "request") /\ UNCHANGED <<do, hand>>
       \/ get_ok("request") /\ hand' = data["request"] /\ Turns("receiver", "send_reply")
       \/ get_refused("request") /\ Turns("receiver", "close_reply") /\ UNCHANGED hand
    /\ UNCHANGED <<user, leaving, asked, replies>>

send_reply ==
    /\ Does("receiver", "send_reply")
    /\ \/ put_wait("receiver", "reply") /\ UNCHANGED <<do, hand>>
       \/ put_ok("reply", hand) /\ hand' = 0 /\ Turns("receiver", "recv_request")
       \/ put_refused("reply") /\ hand' = 0 /\ Turns("receiver", "close_reply")
    /\ UNCHANGED <<user, leaving, asked, replies>>

close_reply ==
    /\ Does("receiver", "close_reply")
    /\ close("reply")
    /\ Turns("receiver", "detach")
    /\ UNCHANGED <<user, leaving, hand, asked, replies>>

(* Both                                                                    *)

detach(t) ==
    /\ Does(t, "detach")
    /\ user > 0
    /\ user' = user - 1
    /\ leaving' = {}                 \* down notifies all
    /\ Turns(t, "leave")
    /\ UNCHANGED <<pipeVars, hand, asked, replies>>

wait_just(t) ==
    /\ Does(t, "leave") /\ t \notin leaving
    /\ IF user = 0 THEN Turns(t, "left") /\ UNCHANGED leaving
       ELSE leaving' = leaving \cup {t} /\ UNCHANGED do
    /\ UNCHANGED <<pipeVars, user, hand, asked, replies>>

\* A third thread aborts request_ and then reply_: what is on its way then comes back to a pipe
\* that is aborted, or will be.
abort_request ==
    /\ MayAbort /\ state["request"] # "ABORTED"
    /\ abort("request")
    /\ UNCHANGED linkVars

abort_reply ==
    /\ state["request"] = "ABORTED" /\ state["reply"] # "ABORTED"
    /\ abort("reply")
    /\ UNCHANGED linkVars

Spurious == \E t \in Threads :
    \/ WakeUp(t) /\ UNCHANGED linkVars
    \/ t \in leaving /\ leaving' = leaving \ {t} /\ UNCHANGED <<pipeVars, user, do, hand, asked, replies>>

SenderRuns   == choose \/ send_request \/ (\E d \in {"recv_reply", "drain"} : recv_reply(d))
                \/ close_request \/ detach("sender") \/ wait_just("sender")
ReceiverRuns == recv_request \/ send_reply \/ close_reply \/ detach("receiver") \/ wait_just("receiver")

ChannelNext == SenderRuns \/ ReceiverRuns \/ abort_request \/ abort_reply \/ Spurious

has_unconfirmed == asked # Len(replies)   \* put_n of request_ and get_n of reply_
-----------------------------------------------------------------------------
\* Replies come in the order of the requests, one for each; a channel that was not aborted is
\* left by its sender when nothing is unconfirmed; and who has left has left no user behind.
AnsweredInOrder ==
    /\ replies = [k \in 1 .. Len(replies) |-> k] /\ Len(replies) <= asked
    /\ do["sender"] \in {"detach", "leave", "left"} => ~has_unconfirmed \/ "ABORTED" \in {state[p] : p \in Pipes}
    /\ \A t \in Threads : do[t] = "left" => \A c \in Threads : do[c] \in {"leave", "left"}

\* Nobody sleeps beside what it waits for.
NoLostWakeup ==
    /\ leaving # {} => user > 0
    /\ \A t \in Threads, p \in Pipes : at[t] = {p} =>
         state[p] = (IF do[t] \in {"send_request", "send_reply"} THEN "EXIST" ELSE "EMPTY")

\* Both have left: they do, when the sender goes as far ahead as it may, and when both pipes
\* are aborted.
AllLeft == \A t \in Threads : do[t] = "left"
=============================================================================
