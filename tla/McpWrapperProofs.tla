-------------------------- MODULE McpWrapperProofs --------------------------
(***************************************************************************)
(* Theorems about McpWrapper, for any number of processes and gateways:    *)
(* the lock holder is the only one at the cache, which makes the logins    *)
(* rare; tokens stay with the gateway that issued them; and a scoped token *)
(* outlives its process only in the ways RevokedUnlessAdminExpired names.  *)
(***************************************************************************)
EXTENDS McpWrapper, TLAPS

\* flock: who is between taking the lock and leaving the with-block has it.
LockInv == \A w \in Wrappers : pc[w] \in Holding <=> lock = w

\* Tokens in use were issued, by the gateway they are used at; who writes the
\* cache or has a scoped token has an admin token, no bearer token.
TokenInv ==
    /\ cache \in Tokens => life[cache] # "unissued"
    /\ \A w \in Wrappers : token[w] \in Tokens =>
         life[token[w]] # "unissued" /\ home[token[w]] = BaseOf[w]
    /\ \A w \in Wrappers :
         pc[w] \in {"truncate", "fill", "create", "revoke"} \/ scoped[w] # "none"
            => token[w] \in Tokens

\* A live scoped token belongs to a process that will revoke it, or that left
\* in a way that could not.
ScopedInv ==
    \A w \in Wrappers : scoped[w] = "live" =>
        \/ pc[w] \in {"created", "serve", "revoke"}
        \/ /\ pc[w] = "done"
           /\ \/ w \in killed
              \/ w \in cut
              \/ token[w] \in Tokens /\ life[token[w]] = "expired"

\* Writing(w, t): w is bringing its new token t to the cache.
Writing(w, t) == pc[w] \in {"truncate", "fill"} /\ token[w] = t

\* A fresh token the cache has not lost is in it or on its way; who logs in
\* does so because there was none to use, and the lock keeps it that way.
FreshInv ==
    /\ \A t \in Tokens \ gone : life[t] = "fresh" =>
         cache = t \/ \E w \in Wrappers : Writing(w, t)
    /\ \A w \in Wrappers : pc[w] \in {"login", "truncate"} => ~Usable(w)
    /\ \A w \in Wrappers : pc[w] = "fill" => cache = NoToken

LEMMA TokenNumbers == NoToken \notin Tokens
  BY DEF NoToken, Tokens

\* Every step keeps the types.
LEMMA TypeStep ==
  ASSUME TypeOK, TokenInv, [Next]_vars
  PROVE  TypeOK'
<1> USE WrapperAssumption, TokenNumbers DEF TypeOK, Lives, Places, Holding, Goto
<1>1. ASSUME NEW w \in Wrappers, Probe(w) PROVE TypeOK'
  BY <1>1 DEF Probe, Usable
<1>2. ASSUME NEW w \in Wrappers, Lock(w) PROVE TypeOK'
  BY <1>2 DEF Lock
<1>3. ASSUME NEW w \in Wrappers, Recheck(w) PROVE TypeOK'
  BY <1>3 DEF Recheck, Usable
<1>4. ASSUME NEW w \in Wrappers, Login(w) PROVE TypeOK'
  BY <1>4 DEF Login, MayRetry
<1>5. ASSUME NEW w \in Wrappers, Truncate(w) PROVE TypeOK'
  BY <1>5 DEF Truncate
<1>6. ASSUME NEW w \in Wrappers, Fill(w) PROVE TypeOK'
  BY <1>6 DEF Fill
<1>7. ASSUME NEW w \in Wrappers, Resolve(w) PROVE TypeOK'
  BY <1>7 DEF Resolve
<1>8. ASSUME NEW w \in Wrappers, CreateScoped(w) PROVE TypeOK'
  BY <1>8 DEF CreateScoped, Missed
<1>9. ASSUME NEW w \in Wrappers, Install(w) PROVE TypeOK'
  BY <1>9 DEF Install
<1>10. ASSUME NEW w \in Wrappers, Revoke(w) PROVE TypeOK'
  BY <1>10 DEF Revoke, Missed
<1>11. ASSUME NEW w \in Wrappers, Launch(w) PROVE TypeOK'
  BY <1>11 DEF Launch
<1>12. ASSUME NEW w \in Wrappers, Stop(w) PROVE TypeOK'
  BY <1>12 DEF Stop
<1>13. ASSUME NEW w \in Wrappers, Die(w) PROVE TypeOK'
  BY <1>13 DEF Die, TokenInv
<1>14. ASSUME NEW t \in Tokens, Ages(t) PROVE TypeOK'
  BY <1>14 DEF Ages
<1>15. CASE UNCHANGED vars
  BY <1>15 DEF vars
<1>16. QED
  BY <1>1, <1>2, <1>3, <1>4, <1>5, <1>6, <1>7, <1>8, <1>9, <1>10,
     <1>11, <1>12, <1>13, <1>14, <1>15 DEF Next, Step

\* Every step keeps the lock with the one process at the cache.
LEMMA LockStep ==
  ASSUME TypeOK, LockInv, [Next]_vars
  PROVE  LockInv'
<1> USE WrapperAssumption, TokenNumbers DEF TypeOK, LockInv, Places, Holding, Goto
<1>1. ASSUME NEW w \in Wrappers, Probe(w) PROVE LockInv'
  BY <1>1 DEF Probe
<1>2. ASSUME NEW w \in Wrappers, Lock(w) PROVE LockInv'
  BY <1>2 DEF Lock
<1>3. ASSUME NEW w \in Wrappers, Recheck(w) PROVE LockInv'
  BY <1>3 DEF Recheck
<1>4. ASSUME NEW w \in Wrappers, Login(w) PROVE LockInv'
  BY <1>4 DEF Login
<1>5. ASSUME NEW w \in Wrappers, Truncate(w) PROVE LockInv'
  BY <1>5 DEF Truncate
<1>6. ASSUME NEW w \in Wrappers, Fill(w) PROVE LockInv'
  BY <1>6 DEF Fill
<1>7. ASSUME NEW w \in Wrappers, Resolve(w) PROVE LockInv'
  BY <1>7 DEF Resolve
<1>8. ASSUME NEW w \in Wrappers, CreateScoped(w) PROVE LockInv'
  BY <1>8 DEF CreateScoped
<1>9. ASSUME NEW w \in Wrappers, Install(w) PROVE LockInv'
  BY <1>9 DEF Install
<1>10. ASSUME NEW w \in Wrappers, Revoke(w) PROVE LockInv'
  BY <1>10 DEF Revoke
<1>11. ASSUME NEW w \in Wrappers, Launch(w) PROVE LockInv'
  BY <1>11 DEF Launch
<1>12. ASSUME NEW w \in Wrappers, Stop(w) PROVE LockInv'
  BY <1>12 DEF Stop
<1>13. ASSUME NEW w \in Wrappers, Die(w) PROVE LockInv'
  BY <1>13 DEF Die
<1>14. ASSUME NEW t \in Tokens, Ages(t) PROVE LockInv'
  BY <1>14 DEF Ages
<1>15. CASE UNCHANGED vars
  BY <1>15 DEF vars
<1>16. QED
  BY <1>1, <1>2, <1>3, <1>4, <1>5, <1>6, <1>7, <1>8, <1>9, <1>10,
     <1>11, <1>12, <1>13, <1>14, <1>15 DEF Next, Step

\* Every step keeps tokens issued and at home.
LEMMA TokenStep ==
  ASSUME TypeOK, TokenInv, [Next]_vars
  PROVE  TokenInv'
<1> USE WrapperAssumption, TokenNumbers DEF TypeOK, TokenInv, Lives, Places, Holding, Goto
<1>1. ASSUME NEW w \in Wrappers, Probe(w) PROVE TokenInv'
  BY <1>1 DEF Probe, Usable
<1>2. ASSUME NEW w \in Wrappers, Lock(w) PROVE TokenInv'
  BY <1>2 DEF Lock
<1>3. ASSUME NEW w \in Wrappers, Recheck(w) PROVE TokenInv'
  BY <1>3 DEF Recheck, Usable
<1>4. ASSUME NEW w \in Wrappers, Login(w) PROVE TokenInv'
  BY <1>4 DEF Login, MayRetry
<1>5. ASSUME NEW w \in Wrappers, Truncate(w) PROVE TokenInv'
  BY <1>5 DEF Truncate
<1>6. ASSUME NEW w \in Wrappers, Fill(w) PROVE TokenInv'
  BY <1>6 DEF Fill
<1>7. ASSUME NEW w \in Wrappers, Resolve(w) PROVE TokenInv'
  BY <1>7 DEF Resolve
<1>8. ASSUME NEW w \in Wrappers, CreateScoped(w) PROVE TokenInv'
  BY <1>8 DEF CreateScoped
<1>9. ASSUME NEW w \in Wrappers, Install(w) PROVE TokenInv'
  BY <1>9 DEF Install
<1>10. ASSUME NEW w \in Wrappers, Revoke(w) PROVE TokenInv'
  BY <1>10 DEF Revoke
<1>11. ASSUME NEW w \in Wrappers, Launch(w) PROVE TokenInv'
  BY <1>11 DEF Launch
<1>12. ASSUME NEW w \in Wrappers, Stop(w) PROVE TokenInv'
  BY <1>12 DEF Stop
<1>13. ASSUME NEW w \in Wrappers, Die(w) PROVE TokenInv'
  BY <1>13 DEF Die
<1>14. ASSUME NEW t \in Tokens, Ages(t) PROVE TokenInv'
  BY <1>14 DEF Ages
<1>15. CASE UNCHANGED vars
  BY <1>15 DEF vars
<1>16. QED
  BY <1>1, <1>2, <1>3, <1>4, <1>5, <1>6, <1>7, <1>8, <1>9, <1>10,
     <1>11, <1>12, <1>13, <1>14, <1>15 DEF Next, Step

\* Every step keeps the scoped tokens accounted for.
LEMMA ScopedStep ==
  ASSUME TypeOK, TokenInv, ScopedInv, [Next]_vars
  PROVE  ScopedInv'
<1> USE WrapperAssumption, TokenNumbers DEF TypeOK, TokenInv, ScopedInv, Lives, Places, Holding, Goto
<1>1. ASSUME NEW w \in Wrappers, Probe(w) PROVE ScopedInv'
  BY <1>1 DEF Probe
<1>2. ASSUME NEW w \in Wrappers, Lock(w) PROVE ScopedInv'
  BY <1>2 DEF Lock
<1>3. ASSUME NEW w \in Wrappers, Recheck(w) PROVE ScopedInv'
  BY <1>3 DEF Recheck
<1>4. ASSUME NEW w \in Wrappers, Login(w) PROVE ScopedInv'
  BY <1>4 DEF Login
<1>5. ASSUME NEW w \in Wrappers, Truncate(w) PROVE ScopedInv'
  BY <1>5 DEF Truncate
<1>6. ASSUME NEW w \in Wrappers, Fill(w) PROVE ScopedInv'
  BY <1>6 DEF Fill
<1>7. ASSUME NEW w \in Wrappers, Resolve(w) PROVE ScopedInv'
  BY <1>7 DEF Resolve
<1>8. ASSUME NEW w \in Wrappers, CreateScoped(w) PROVE ScopedInv'
  BY <1>8 DEF CreateScoped, Accepted, Missed
<1>9. ASSUME NEW w \in Wrappers, Install(w) PROVE ScopedInv'
  BY <1>9 DEF Install
<1>10. ASSUME NEW w \in Wrappers, Revoke(w) PROVE ScopedInv'
  BY <1>10 DEF Revoke, Accepted, Missed
<1>11. ASSUME NEW w \in Wrappers, Launch(w) PROVE ScopedInv'
  BY <1>11 DEF Launch
<1>12. ASSUME NEW w \in Wrappers, Stop(w) PROVE ScopedInv'
  BY <1>12 DEF Stop
<1>13. ASSUME NEW w \in Wrappers, Die(w) PROVE ScopedInv'
  BY <1>13 DEF Die
<1>14. ASSUME NEW t \in Tokens, Ages(t) PROVE ScopedInv'
  BY <1>14 DEF Ages
<1>15. CASE UNCHANGED vars
  BY <1>15 DEF vars
<1>16. QED
  BY <1>1, <1>2, <1>3, <1>4, <1>5, <1>6, <1>7, <1>8, <1>9, <1>10,
     <1>11, <1>12, <1>13, <1>14, <1>15 DEF Next, Step

\* Every step keeps the fresh tokens in sight.
LEMMA FreshStep ==
  ASSUME TypeOK, LockInv, TokenInv, FreshInv, [Next]_vars
  PROVE  FreshInv'
<1> USE WrapperAssumption, TokenNumbers DEF TypeOK, LockInv, TokenInv, FreshInv, Usable, Writing, Lives, Places, Holding, Goto
<1>1. ASSUME NEW w \in Wrappers, Probe(w) PROVE FreshInv'
  BY <1>1 DEF Probe
<1>2. ASSUME NEW w \in Wrappers, Lock(w) PROVE FreshInv'
  BY <1>2 DEF Lock
<1>3. ASSUME NEW w \in Wrappers, Recheck(w) PROVE FreshInv'
  BY <1>3 DEF Recheck
<1>4. ASSUME NEW w \in Wrappers, Login(w) PROVE FreshInv'
  BY <1>4 DEF Login
<1>5. ASSUME NEW w \in Wrappers, Truncate(w) PROVE FreshInv'
  BY <1>5 DEF Truncate
<1>6. ASSUME NEW w \in Wrappers, Fill(w) PROVE FreshInv'
  BY <1>6 DEF Fill
<1>7. ASSUME NEW w \in Wrappers, Resolve(w) PROVE FreshInv'
  BY <1>7 DEF Resolve
<1>8. ASSUME NEW w \in Wrappers, CreateScoped(w) PROVE FreshInv'
  BY <1>8 DEF CreateScoped
<1>9. ASSUME NEW w \in Wrappers, Install(w) PROVE FreshInv'
  BY <1>9 DEF Install
<1>10. ASSUME NEW w \in Wrappers, Revoke(w) PROVE FreshInv'
  BY <1>10 DEF Revoke
<1>11. ASSUME NEW w \in Wrappers, Launch(w) PROVE FreshInv'
  BY <1>11 DEF Launch
<1>12. ASSUME NEW w \in Wrappers, Stop(w) PROVE FreshInv'
  BY <1>12 DEF Stop
<1>13. ASSUME NEW w \in Wrappers, Die(w) PROVE FreshInv'
  BY <1>13 DEF Die
<1>14. ASSUME NEW t \in Tokens, Ages(t) PROVE FreshInv'
  BY <1>14 DEF Ages
<1>15. CASE UNCHANGED vars
  BY <1>15 DEF vars
<1>16. QED
  BY <1>1, <1>2, <1>3, <1>4, <1>5, <1>6, <1>7, <1>8, <1>9, <1>10,
     <1>11, <1>12, <1>13, <1>14, <1>15 DEF Next, Step

Inv == TypeOK /\ LockInv /\ TokenInv /\ ScopedInv /\ FreshInv

LEMMA Invariance == Spec => []Inv
<1>1. Init => Inv
  BY WrapperAssumption, TokenNumbers
  DEF Init, Inv, TypeOK, LockInv, TokenInv, ScopedInv, FreshInv, Writing, Usable,
      Lives, Places, Holding
<1>2. Inv /\ [Next]_vars => Inv'
  BY TypeStep, LockStep, TokenStep, ScopedStep, FreshStep DEF Inv
<1>3. QED
  BY <1>1, <1>2, PTL DEF Spec

\* The variables keep their types, whatever the numbers of processes,
\* gateways and logins.
THEOREM TypeCorrect == Spec => []TypeOK
  BY Invariance, PTL DEF Inv

\* _token lets a gateway see one login per token lifetime, however many
\* wrappers start together.
THEOREM NoStampede == Spec => []NoLoginStampede
<1>1. Inv => NoLoginStampede
  <2> SUFFICES ASSUME Inv, NEW s \in Tokens \ gone, NEW t \in Tokens \ gone,
                      life[s] = "fresh", life[t] = "fresh", home[s] = home[t]
               PROVE  s = t
    BY DEF NoLoginStampede
  <2>1. ASSUME NEW w \in Wrappers, NEW x \in Tokens \ gone, Writing(w, x),
               NEW y \in Tokens, life[y] = "fresh", home[x] = home[y]
        PROVE  cache # y
    BY <2>1, TokenNumbers DEF Inv, FreshInv, TokenInv, Writing, Usable
  <2>2. ASSUME NEW w \in Wrappers, NEW v \in Wrappers, Writing(w, s), Writing(v, t)
        PROVE  s = t
    BY <2>2 DEF Inv, LockInv, Writing, Holding
  <2>3. QED
    BY <2>1, <2>2 DEF Inv, FreshInv
<1>2. QED
  BY <1>1, Invariance, PTL

\* _cached_token's comparison of the base URL suffices for wrappers of several
\* gateways to share one cache file.
THEOREM HomeSafety == Spec => []TokenStaysHome
<1>1. Inv => TokenStaysHome
  BY DEF Inv, TypeOK, TokenInv, TokenStaysHome
<1>2. QED
  BY <1>1, Invariance, PTL

\* A wrapper that leaves a live scoped token behind was killed, missed a reply
\* or held an expired admin token.
THEOREM RevocationSafety == Spec => []RevokedUnlessAdminExpired
<1>1. Inv => RevokedUnlessAdminExpired
  BY DEF Inv, ScopedInv, RevokedUnlessAdminExpired, Left
<1>2. QED
  BY <1>1, Invariance, PTL
=============================================================================
