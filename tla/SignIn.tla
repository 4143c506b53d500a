------------------------------- MODULE SignIn -------------------------------
(***************************************************************************)
(* The way to a session (internal/gateway: loginBackoff, handleLogin,      *)
(* handleGoogleLogin in auth.go, googleVerifier in googleid.go).           *)
(*                                                                         *)
(* Failures are counted per pair of client address and email; all Google   *)
(* sign-ins from one address share a pair.  A Google ID token is checked   *)
(* against Google's signing keys, cached for as long as Google says; an    *)
(* unknown key has them fetched again, and the verifier's lock is held     *)
(* meanwhile.  Instants are kept as their distance from now, up to where   *)
(* the code stops telling them apart, so time passes without end in        *)
(* finitely many states.                                                   *)
(***************************************************************************)
EXTENDS Naturals, FiniteSets, Sequences

CONSTANTS
  Pairs,        \* client address and email
  GooglePair,   \* the pair of Google sign-ins
  Logins,       \* sign-ins in progress at the same time
  MaxFails,     \* backoffMaxFails
  Window,       \* backoffWindow
  LockoutFor,   \* backoffLockoutFor
  Kids,         \* Google's signing keys
  TTLs,         \* values of Cache-Control's max-age
  FetchEvery,   \* an unknown key has Google asked again this often
  FetchTimeout  \* a fetch takes no longer

MaxTTL == CHOOSE t \in TTLs : \A u \in TTLs : u =< t

ASSUME SignInAssumption ==
  /\ GooglePair \in Pairs
  /\ {MaxFails, Window, LockoutFor, FetchEvery, FetchTimeout} \subseteq Nat \ {0}
  /\ TTLs \subseteq Nat \ {0} /\ \E t \in TTLs : \A u \in TTLs : u =< t
  /\ IsFiniteSet(Logins) /\ "" \notin Logins
  /\ Window =< LockoutFor

VARIABLES
  fails,      \* loginBackoff.fails: pair -> failState
  published,  \* the keys Google signs with and publishes
  cache,      \* googleVerifier.keys and expires
  fetched,    \* googleVerifier.lastFetch
  fetching,   \* the fetch in progress under googleVerifier.mu
  login       \* login -> its progress

google == <<cache, fetched, fetching>>
signInVars == <<fails, published, google, login>>

\* Distances stop at the first value that is as good as any larger one.
UpTo(limit, d) == IF d < limit THEN d ELSE limit
Less(d) == IF d = 0 THEN 0 ELSE d - 1

\* failState: failures counted (further ones change nothing), time since the
\* last one, time left of the lock-out.
NoFails == [count |-> 0, since |-> 0, left |-> 0]

\* googleVerifier before its first fetch.
NoKeys == [keys |-> {}, left |-> 0]
NoFetch == [by |-> "", age |-> 0]
IdleLogin == [pc |-> "idle", pair |-> GooglePair, kid |-> ""]

-----------------------------------------------------------------------------
SignInInit ==
  /\ fails = [p \in Pairs |-> NoFails]
  /\ published \in {{k} : k \in Kids}
  /\ cache = NoKeys
  /\ fetched = FetchEvery
  /\ fetching = NoFetch
  /\ login = [l \in Logins |-> IdleLogin]

\* Time passes; a fetch ends before its timeout.
Tick ==
  /\ fetching # NoFetch => fetching.age < FetchTimeout
  /\ fails' = [p \in Pairs |->
                 IF fails[p].count = 0 THEN NoFails
                 ELSE [fails[p] EXCEPT !.since = UpTo(Window + 1, @ + 1), !.left = Less(@)]]
  /\ cache' = [cache EXCEPT !.left = Less(@)]
  /\ fetched' = UpTo(FetchEvery, fetched + 1)
  /\ fetching' = IF fetching = NoFetch THEN NoFetch ELSE [fetching EXCEPT !.age = @ + 1]
  /\ UNCHANGED <<published, login>>

\* Google signs with a new key, and publishes the last one for a while.
Rotate(k) ==
  /\ k \notin published
  /\ published' \in {{k}, published \cup {k}}
  /\ UNCHANGED <<fails, google, login>>

Withdraw(k) ==
  /\ k \in published /\ Cardinality(published) > 1
  /\ published' = published \ {k}
  /\ UNCHANGED <<fails, google, login>>

(***************************************************************************)
(* loginBackoff, each call under its lock.                                 *)
(***************************************************************************)
Expired(st) == st.since > Window

Allowed(st) == st.left = 0

Forgotten(st) == IF Expired(st) THEN NoFails ELSE st

\* Mutant of Failed: every failure restarts the count.
FailedAfresh(st) == [count |-> 1, since |-> 0, left |-> 0]
Failed(st) ==
  LET n == UpTo(MaxFails, Forgotten(st).count + 1) IN
  [count |-> n, since |-> 0,
   left |-> IF n = MaxFails THEN LockoutFor ELSE Forgotten(st).left]

LoginMoves(l, q) == login' = [login EXCEPT ![l] = q]

\* verify: a malformed token ("") is bad before its key is looked for.
Opens(p, kid) == IF p # GooglePair THEN "verify" ELSE IF kid = "" THEN "bad" ELSE "key"

\* allow: a locked pair is turned away.
Attempt(l, p, kid) ==
  /\ login[l].pc = "idle" /\ Allowed(fails[p])
  /\ fails' = [fails EXCEPT ![p] = Forgotten(@)]
  /\ LoginMoves(l, [pc |-> Opens(p, kid), pair |-> p, kid |-> kid])
  /\ UNCHANGED <<published, google>>

\* fail: unknown account, wrong password, disabled account, bad token.
Refuse(l) ==
  /\ login[l].pc \in {"verify", "bad"}
  /\ fails' = [fails EXCEPT ![login[l].pair] = Failed(@)]
  /\ LoginMoves(l, IdleLogin)
  /\ UNCHANGED <<published, google>>

\* reset, then startSession.
Accept(l) ==
  /\ login[l].pc = "verify"
  /\ fails' = [fails EXCEPT ![login[l].pair] = NoFails]
  /\ LoginMoves(l, IdleLogin)
  /\ UNCHANGED <<published, google>>

\* The answers that count for nothing: Google not reached, a disabled account
\* signing in with Google, a failing store.
Abandon(l) ==
  /\ login[l].pc = "verify"
  /\ LoginMoves(l, IdleLogin)
  /\ UNCHANGED <<fails, published, google>>

(***************************************************************************)
(* googleVerifier.key, under its lock.                                     *)
(***************************************************************************)
\* Mutant of Known: the cache is believed past its expiry.
KnownForever(kid) == kid \in cache.keys
Known(kid) == kid \in cache.keys /\ cache.left > 0

Throttled == fetched < FetchEvery /\ cache.left > 0

Key(l) ==
  /\ login[l].pc = "key" /\ fetching = NoFetch
  /\ \/ /\ Known(login[l].kid)
        /\ LoginMoves(l, [login[l] EXCEPT !.pc = "verify"])
        /\ UNCHANGED fetching
     \/ /\ ~Known(login[l].kid) /\ Throttled
        /\ LoginMoves(l, [login[l] EXCEPT !.pc = "bad"])
        /\ UNCHANGED fetching
     \/ /\ ~Known(login[l].kid) /\ ~Throttled
        /\ fetching' = [by |-> l, age |-> 0]
        /\ LoginMoves(l, [login[l] EXCEPT !.pc = "fetch"])
  /\ UNCHANGED <<fails, published, cache, fetched>>

\* fetch succeeds: the keys replace the cached ones, dated at its start.
Fetched(l, ttl) ==
  /\ login[l].pc = "fetch"
  /\ cache' = [keys |-> published, left |-> IF ttl > fetching.age THEN ttl - fetching.age ELSE 0]
  /\ fetched' = UpTo(FetchEvery, fetching.age)
  /\ fetching' = NoFetch
  /\ LoginMoves(l, [login[l] EXCEPT !.pc = IF login[l].kid \in published THEN "verify" ELSE "bad"])
  /\ UNCHANGED <<fails, published>>

\* Mutant of FetchFails: the lock is not released.
FetchFailsLocked(l) ==
  /\ login[l].pc = "fetch"
  /\ LoginMoves(l, IdleLogin)
  /\ UNCHANGED <<fails, published, google>>

\* fetch fails: a 503 that counts for nothing.
FetchFails(l) ==
  /\ login[l].pc = "fetch"
  /\ fetched' = UpTo(FetchEvery, fetching.age)
  /\ fetching' = NoFetch
  /\ LoginMoves(l, IdleLogin)
  /\ UNCHANGED <<fails, published, cache>>

KeysChange == \E k \in Kids : Rotate(k) \/ Withdraw(k)

\* A step of a sign-in that settles nothing for the back-off.
SignInStep(l) ==
  \/ \E p \in Pairs \ {GooglePair} : Attempt(l, p, "")
  \/ \E kid \in Kids \cup {"none", ""} : Attempt(l, GooglePair, kid)
  \/ Abandon(l) \/ Key(l) \/ FetchFails(l)
  \/ \E ttl \in TTLs : Fetched(l, ttl)

SignInNext == Tick \/ KeysChange \/ \E l \in Logins : Refuse(l) \/ Accept(l) \/ SignInStep(l)

SignInSpec == SignInInit /\ [][SignInNext]_signInVars
=============================================================================
