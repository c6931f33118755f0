----------------------------- MODULE McpWrapper -----------------------------
(***************************************************************************)
(* scripts/contextforge_mcp_wrapper.py: the stdio processes that stand     *)
(* between an assistant and a ContextForge gateway.  Every session starts  *)
(* one per service, usually all at once.  They share an admin token in a   *)
(* cache file behind an flock; each creates a scoped token of its own on   *)
(* the gateway and is to revoke it when it exits.                          *)
(***************************************************************************)
EXTENDS Naturals

CONSTANTS
    Wrappers,    \* the processes, each of which runs once
    Bases,       \* gateway base URLs
    BaseOf,      \* GATEWAY_BASE of each process
    Free,        \* nobody holds TOKEN_LOCK
    MaxLogins    \* bound: logins that succeed

ASSUME WrapperAssumption ==
    /\ BaseOf \in [Wrappers -> Bases]
    /\ Free \notin Wrappers
    /\ MaxLogins \in Nat

VARIABLES
    pc,        \* where each process is
    attempt,   \* its refused logins, in the loop of _login_token
    token,     \* the admin token it holds, NoToken before it has one
    lock,      \* TOKEN_LOCK
    cache,     \* the token in TOKEN_CACHE; NoToken: no file, or not whole
    life,      \* what is left of each admin token
    home,      \* the gateway that issued it, or NoBase
    scoped,    \* the gateway's record of each process's scoped token
    killed,    \* history: processes that died without a handler running
    cut,       \* history: processes that missed the outcome of a call
    gone       \* history: tokens the cache lost through a death or to another gateway

vars == <<pc, attempt, token, lock, cache, life, home, scoped, killed, cut, gone>>

Tokens == 1 .. MaxLogins
NoToken == 0
NoBase == "none"

\* "fresh": at least 60 seconds left; "closing": fewer, still accepted.
Lives == {"unissued", "fresh", "closing", "expired"}
Holding == {"recheck", "login", "truncate", "fill"}
Places == Holding \union {"idle", "probe", "lock", "resolve", "create", "created",
                          "serve", "revoke", "done"}

Init ==
    /\ pc = [w \in Wrappers |-> "idle"]
    /\ attempt = [w \in Wrappers |-> 0]
    /\ token = [w \in Wrappers |-> NoToken]
    /\ lock = Free
    /\ cache = NoToken
    /\ life = [t \in Tokens |-> "unissued"]
    /\ home = [t \in Tokens |-> NoBase]
    /\ scoped = [w \in Wrappers |-> "none"]
    /\ killed = {}
    /\ cut = {}
    /\ gone = {}

Goto(w, place) == pc' = [pc EXCEPT ![w] = place]

Accepted(t) == life[t] \in {"fresh", "closing"}

\* Variant: the cache is not bound to a gateway.
UsableAnywhere(w) == cache \in Tokens /\ life[cache] = "fresh"

\* _cached_token: whole, of this gateway, and with a minute left.
Usable(w) == cache \in Tokens /\ home[cache] = BaseOf[w] /\ life[cache] = "fresh"

-----------------------------------------------------------------------------
(* Getting an admin token.                                                 *)

\* main up to _token: CONTEXTFORGE_BEARER_TOKEN makes the cache and the lock
\* moot, a bad target configuration or missing credentials end the process.
Launch(w) ==
    /\ pc[w] = "idle"
    /\ \/ Goto(w, "probe")
       \/ Goto(w, "resolve")
       \/ Goto(w, "done")
    /\ UNCHANGED <<attempt, token, lock, cache, life, home, scoped, killed, cut, gone>>

\* The first _cached_token, without the lock: it may see a half-written file.
Probe(w) ==
    /\ pc[w] = "probe"
    /\ IF Usable(w)
       THEN Goto(w, "resolve") /\ token' = [token EXCEPT ![w] = cache]
       ELSE Goto(w, "lock") /\ UNCHANGED token
    /\ UNCHANGED <<attempt, lock, cache, life, home, scoped, killed, cut, gone>>

Lock(w) ==
    /\ pc[w] = "lock"
    /\ lock = Free
    /\ lock' = w
    /\ Goto(w, "recheck")
    /\ UNCHANGED <<attempt, token, cache, life, home, scoped, killed, cut, gone>>

\* Variant: the cache is not read again.
RecheckSkipped(w) ==
    /\ pc[w] = "recheck"
    /\ Goto(w, "login")
    /\ UNCHANGED <<attempt, token, lock, cache, life, home, scoped, killed, cut, gone>>

\* Under the lock the cache is read again; the with-block ends on return.
Recheck(w) ==
    /\ pc[w] = "recheck"
    /\ IF Usable(w)
       THEN /\ Goto(w, "resolve")
            /\ token' = [token EXCEPT ![w] = cache]
            /\ lock' = Free
       ELSE Goto(w, "login") /\ UNCHANGED <<token, lock>>
    /\ UNCHANGED <<attempt, cache, life, home, scoped, killed, cut, gone>>

\* range(4): the fourth 429 is raised.
MayRetry(w) == attempt[w] < 3

\* _login_token: a token, a 429 (at most three are waited out, the lock held),
\* or an error that ends the process and with it the lock.
Login(w) ==
    /\ pc[w] = "login"
    /\ \/ \E t \in Tokens :
            /\ life[t] = "unissued" /\ \A s \in 1 .. (t - 1) : life[s] # "unissued"
            /\ life' = [life EXCEPT ![t] = "fresh"]
            /\ home' = [home EXCEPT ![t] = BaseOf[w]]
            /\ token' = [token EXCEPT ![w] = t]
            /\ attempt' = [attempt EXCEPT ![w] = 0]
            /\ Goto(w, "truncate")
            /\ UNCHANGED lock
       \/ /\ MayRetry(w)
          /\ attempt' = [attempt EXCEPT ![w] = @ + 1]
          /\ UNCHANGED <<pc, token, lock, life, home>>
       \/ /\ Goto(w, "done")
          /\ lock' = Free
          /\ attempt' = [attempt EXCEPT ![w] = 0]
          /\ UNCHANGED <<token, life, home>>
    /\ UNCHANGED <<cache, scoped, killed, cut, gone>>

\* _write_token_cache: O_TRUNC, then the text.
Truncate(w) ==
    /\ pc[w] = "truncate"
    /\ cache' = NoToken
    /\ gone' = IF cache \in Tokens /\ home[cache] # BaseOf[w]
               THEN gone \union {cache} ELSE gone
    /\ Goto(w, "fill")
    /\ UNCHANGED <<attempt, token, lock, life, home, scoped, killed, cut>>

Fill(w) ==
    /\ pc[w] = "fill"
    /\ cache' = token[w]
    /\ lock' = Free
    /\ Goto(w, "resolve")
    /\ UNCHANGED <<attempt, token, life, home, scoped, killed, cut, gone>>

-----------------------------------------------------------------------------
(* The scoped token.                                                       *)

Missed(w) == cut' = cut \union {w}

\* The server's id is configured or listed, or the process gives up.  A
\* supplied bearer token is used as it is.
Resolve(w) ==
    /\ pc[w] = "resolve"
    /\ \/ Goto(w, IF token[w] = NoToken THEN "serve" ELSE "create")
       \/ Goto(w, "done")
    /\ UNCHANGED <<attempt, token, lock, cache, life, home, scoped, killed, cut, gone>>

\* POST /tokens: created and known; created but the reply is lost or lacks the
\* id, which ends the process; or refused, as it is with an expired token.
CreateScoped(w) ==
    /\ pc[w] = "create"
    /\ \/ /\ Accepted(token[w])
          /\ scoped' = [scoped EXCEPT ![w] = "live"]
          /\ \/ Goto(w, "created") /\ UNCHANGED cut
             \/ Goto(w, "done") /\ Missed(w)
       \/ Goto(w, "done") /\ UNCHANGED <<scoped, cut>>
    /\ UNCHANGED <<attempt, token, lock, cache, life, home, killed, gone>>

\* _install_signal_cleanup_handlers, then the stock wrapper runs.
Install(w) ==
    /\ pc[w] = "created"
    /\ Goto(w, "serve")
    /\ UNCHANGED <<attempt, token, lock, cache, life, home, scoped, killed, cut, gone>>

\* End of input, idle time-out, a new parent, SIGTERM, SIGINT, a broken pipe
\* or an error: all of them reach the finally of main.
Stop(w) ==
    /\ pc[w] = "serve"
    /\ Goto(w, IF scoped[w] = "none" THEN "done" ELSE "revoke")
    /\ UNCHANGED <<attempt, token, lock, cache, life, home, scoped, killed, cut, gone>>

\* Variant: the token is left to its one day.
RevokeSkipped(w) ==
    /\ pc[w] = "revoke"
    /\ Goto(w, "done")
    /\ UNCHANGED <<attempt, token, lock, cache, life, home, scoped, killed, cut, gone>>

\* DELETE /tokens/{id} with the admin token of the start, whose refusal or
\* failure is logged and nothing more.
Revoke(w) ==
    /\ pc[w] = "revoke"
    /\ Goto(w, "done")
    /\ \/ /\ Accepted(token[w])
          /\ scoped' = [scoped EXCEPT ![w] = "revoked"]
          /\ UNCHANGED cut
       \/ ~Accepted(token[w]) /\ UNCHANGED <<scoped, cut>>
       \/ Missed(w) /\ UNCHANGED scoped
    /\ UNCHANGED <<attempt, token, lock, cache, life, home, killed, gone>>

-----------------------------------------------------------------------------
(* Deaths and time.                                                        *)

\* Variant: the lock is a file that outlives its creator.
DieLocked(w) ==
    /\ pc[w] \notin {"idle", "done"}
    /\ Goto(w, "done")
    /\ killed' = killed \union {w}
    /\ attempt' = [attempt EXCEPT ![w] = 0]
    /\ UNCHANGED <<token, lock, cache, life, home, scoped, cut, gone>>

\* SIGKILL at any point, or a signal where no handler is installed.  The
\* kernel drops the flock.
Die(w) ==
    /\ pc[w] \notin {"idle", "done"}
    /\ Goto(w, "done")
    /\ killed' = killed \union {w}
    /\ lock' = IF lock = w THEN Free ELSE lock
    /\ attempt' = [attempt EXCEPT ![w] = 0]
    /\ gone' = IF pc[w] \in {"truncate", "fill"} THEN gone \union {token[w]} ELSE gone
    /\ UNCHANGED <<token, cache, life, home, scoped, cut>>

Ages(t) ==
    /\ \/ life[t] = "fresh" /\ life' = [life EXCEPT ![t] = "closing"]
       \/ life[t] = "closing" /\ life' = [life EXCEPT ![t] = "expired"]
    /\ UNCHANGED <<pc, attempt, token, lock, cache, home, scoped, killed, cut, gone>>

Step(w) ==
    \/ Probe(w) \/ Lock(w) \/ Recheck(w) \/ Login(w) \/ Truncate(w) \/ Fill(w)
    \/ Resolve(w) \/ CreateScoped(w) \/ Install(w) \/ Revoke(w)

Next ==
    \/ \E w \in Wrappers : Step(w) \/ Launch(w) \/ Stop(w) \/ Die(w)
    \/ \E t \in Tokens : Ages(t)

Spec == Init /\ [][Next]_vars

\* A process that is not blocked goes on: every call has a time-out.
FairSpec == Spec /\ \A w \in Wrappers : WF_vars(Step(w))

-----------------------------------------------------------------------------
(* Properties.                                                             *)

TypeOK ==
    /\ pc \in [Wrappers -> Places]
    /\ attempt \in [Wrappers -> 0 .. 3]
    /\ token \in [Wrappers -> Tokens \union {NoToken}]
    /\ lock \in Wrappers \union {Free}
    /\ cache \in Tokens \union {NoToken}
    /\ life \in [Tokens -> Lives]
    /\ home \in [Tokens -> Bases \union {NoBase}]
    /\ scoped \in [Wrappers -> {"none", "live", "revoked"}]
    /\ killed \subseteq Wrappers
    /\ cut \subseteq Wrappers
    /\ gone \subseteq Tokens

\* However many wrappers start together, a gateway sees one login per token
\* lifetime: two admin tokens with life left exist only if the cache lost one,
\* because its writer died or because another gateway's wrapper shares the
\* file.  (_token's check, lock, check again, log in, write.)
NoLoginStampede ==
    \A s, t \in Tokens \ gone :
        life[s] = "fresh" /\ life[t] = "fresh" /\ home[s] = home[t] => s = t

\* No process sends its gateway a token another gateway issued, though they
\* may share the cache file.  (contextforge_base_url in _cached_token.)
TokenStaysHome ==
    \A w \in Wrappers : token[w] # NoToken => home[token[w]] = BaseOf[w]

Left(w) == pc[w] = "done" /\ w \notin killed /\ w \notin cut

\* A wrapper that exits in its own time, with every call answered, leaves a live
\* scoped token behind in one case: the admin token it logged in with, or found
\* with a minute to go, has expired by then.  (The finally of main.)
RevokedUnlessAdminExpired ==
    \A w \in Wrappers : Left(w) /\ scoped[w] = "live" => life[token[w]] = "expired"

\* Nobody waits for ever: whatever refusals, deaths and lock waits befall it,
\* a wrapper that starts comes to serve or exits.
Settles == \A w \in Wrappers : pc[w] = "probe" ~> pc[w] \in {"serve", "done"}
=============================================================================
