----------------------------- MODULE CodaAttach -----------------------------
(***************************************************************************)
(* ATTACH: rust_ext_resolve_attach (src/attach.rs) and the two callbacks   *)
(* it makes into C++ (src/cpp/rust_bridge_storage.cpp), over the secrets   *)
(* of CodaLoad.  Other connections create, replace and drop secrets at any *)
(* moment.  Both lookups use the ATTACH's system catalog transaction, one  *)
(* snapshot of the secrets (rust_bridge_storage.cpp:49).  What that        *)
(* snapshot holds is DuckDB's, and the properties do not rest on it: the   *)
(* model lets each lookup see the secrets of its own moment, which allows  *)
(* the code's behaviours and more.                                         *)
(*                                                                         *)
(* LookupSecret belongs to DuckDB: the best match for a path is a secret   *)
(* with the longest scope that is a prefix of it.                          *)
(***************************************************************************)
EXTENDS CodaLoad, SequencesExt

CONSTANTS
    Paths,          \* what users attach: doc ids, with or without Prefix
    MaxAttaches     \* ATTACH statements of an instance: a bound

ASSUME AttachAssumption ==
    /\ Paths \subseteq Seq(STRING) /\ Scope \subseteq Seq(STRING)
    /\ MaxAttaches \in Nat

VARIABLES
    phase,          \* where the ATTACH of an instance is
    path,           \* info.path of the ATTACH
    option,         \* its TOKEN option; Empty also when it is absent or NULL
    credential,     \* the credential of the result
    attaches,       \* ATTACH statements so far
    seen,           \* history: secrets of the instance since the ATTACH began
    steady          \* history: those among them that never changed meanwhile

attachVars == <<phase, path, option, credential, attaches, seen, steady>>
vars == <<loadVars, attachVars>>

Errors == {"option failed", "empty doc id", "invalid boolean", "lookup failed",
           "missing credential"}
Ended  == {"none", "attached"} \cup Errors
Phases == {"primary", "fallback"} \cup Ended

Metadata == {"absent or valid", "invalid"}

TypeOK ==
    /\ LoadTypeOK
    /\ phase \in [Instances -> Phases]
    /\ path \in [Instances -> Paths]
    /\ option \in [Instances -> Tokens \cup {Empty}]
    /\ credential \in [Instances -> Tokens \cup {Empty}]
    /\ attaches \in [Instances -> 0..MaxAttaches]
    /\ seen \in [Instances -> SUBSET Secret]
    /\ steady \in [Instances -> SUBSET Secret]

\* The doc: the path without one leading Prefix.
Resource(p) == IF IsPrefix(Prefix, p) THEN SubSeq(p, Len(Prefix) + 1, Len(p)) ELSE p
PrimaryScope(p)  == Prefix \o Resource(p)
FallbackScope(p) == Prefix

Held(i) == {secrets[i][n] : n \in SecretNames} \ {NoSecret}

Covering(s, target) == {x \in s.scope : IsPrefix(x, target)}

\* The secrets LookupSecret may return for a target.
Matches(candidates, target) ==
    {s \in candidates : \E x \in Covering(s, target) :
        \A t \in candidates : \A y \in Covering(t, target) : Len(y) <= Len(x)}

Init ==
    /\ LoadInit
    /\ phase = [i \in Instances |-> "none"]
    /\ path \in [Instances -> Paths]
    /\ option = [i \in Instances |-> Empty]
    /\ credential = [i \in Instances |-> Empty]
    /\ attaches = [i \in Instances |-> 0]
    /\ seen = [i \in Instances |-> {}]
    /\ steady = [i \in Instances |-> {}]
-----------------------------------------------------------------------------
(* resolve_attach up to the first secret lookup.                           *)

\* The first failing check, or where to go on; hostFails says that one of the
\* three get_option callbacks fails.
AfterOptions(p, token, metadata, hostFails) ==
    IF hostFails THEN "option failed"
    ELSE IF Resource(p) = <<>> THEN "empty doc id"
    ELSE IF metadata = "invalid" THEN "invalid boolean"
    ELSE IF token # Empty THEN "attached" ELSE "primary"

StartAttach(i, p, token, metadata, hostFails) ==
    LET next == AfterOptions(p, token, metadata, hostFails) IN
    /\ i \in storage_extensions
    /\ phase[i] \in Ended
    /\ attaches[i] < MaxAttaches
    /\ attaches' = [attaches EXCEPT ![i] = @ + 1]
    /\ path' = [path EXCEPT ![i] = p]
    /\ option' = [option EXCEPT ![i] = token]
    /\ phase' = [phase EXCEPT ![i] = next]
    /\ credential' = [credential EXCEPT ![i] = IF next = "attached" THEN token ELSE Empty]
    /\ seen' = [seen EXCEPT ![i] = Held(i)]
    /\ steady' = [steady EXCEPT ![i] = Held(i)]
    /\ UNCHANGED loadVars

(* lookup_secret and HostLookupSecret.                                     *)

\* The tokens a lookup may return: Empty when no secret matches, NoKey when
\* TryGetValue throws because the secret that matches has no token.
\* Mutant form: the scope is not passed on, any secret of the type will do.
LookupSecret_AnyScope(i, target) ==
    IF Held(i) = {} THEN {Empty} ELSE {s.token : s \in Held(i)}
LookupSecret(i, target) ==
    LET matches == Matches(Held(i), target)
    IN  IF matches = {} THEN {Empty} ELSE {s.token : s \in matches}

\* Mutant form: TryGetValue is not asked to throw, what it returns is a token.
Lookup_NoThrow(i, from, target, onEmpty) ==
    /\ phase[i] = from
    /\ \E token \in LookupSecret(i, target) :
        /\ phase' = [phase EXCEPT ![i] = IF token = Empty THEN onEmpty ELSE "attached"]
        /\ credential' = [credential EXCEPT ![i] = token]
    /\ UNCHANGED <<path, option, attaches, seen, steady, loadVars>>
Lookup(i, from, target, onEmpty) ==
    /\ phase[i] = from
    /\ \E token \in LookupSecret(i, target) :
        /\ phase' = [phase EXCEPT ![i] = IF token = NoKey THEN "lookup failed"
                                         ELSE IF token = Empty THEN onEmpty ELSE "attached"]
        /\ credential' = [credential EXCEPT ![i] = IF token = NoKey THEN Empty ELSE token]
    /\ UNCHANGED <<path, option, attaches, seen, steady, loadVars>>

\* The two lookups: an empty answer falls through to the next.
\* Mutant form: the general scope is looked up first.
LookupPrimary_General(i) == Lookup(i, "primary", FallbackScope(path[i]), "fallback")
LookupPrimary(i)  == Lookup(i, "primary", PrimaryScope(path[i]), "fallback")
LookupFallback(i) == Lookup(i, "fallback", FallbackScope(path[i]), "missing credential")

\* The host throws while it looks a secret up.
LookupFails(i) ==
    /\ phase[i] \notin Ended
    /\ phase' = [phase EXCEPT ![i] = "lookup failed"]
    /\ UNCHANGED <<path, option, credential, attaches, seen, steady, loadVars>>

Attach(i) ==
    \/ \E p \in Paths, token \in Tokens \cup {Empty}, m \in Metadata, f \in BOOLEAN :
           StartAttach(i, p, token, m, f)
    \/ LookupPrimary(i) \/ LookupFallback(i) \/ LookupFails(i)

\* LOAD and CREATE SECRET go on meanwhile; the histories follow an ATTACH that
\* has not ended.
HeldNext(i) == {secrets'[i][n] : n \in SecretNames} \ {NoSecret}
Follow ==
    /\ seen' = [i \in Instances |-> IF phase[i] \in Ended THEN seen[i]
                                    ELSE seen[i] \cup HeldNext(i)]
    /\ steady' = [i \in Instances |-> IF phase[i] \in Ended THEN steady[i]
                                      ELSE steady[i] \cap HeldNext(i)]
    /\ UNCHANGED <<phase, path, option, credential, attaches>>

Next ==
    \/ \E i \in Instances : Attach(i)
    \/ LoadNext /\ Follow

Spec == Init /\ [][Next]_vars
-----------------------------------------------------------------------------
(* Properties.                                                             *)

Usable(s) == s.token \in Tokens

\* A TOKEN option decides alone.  Without one the credential is the token of a
\* secret whose scope covers the doc and which was there at a moment of the
\* ATTACH, never one for another doc (attach.rs:48-60).
CredentialIsTheDocs ==
    \A i \in Instances : phase[i] = "attached" =>
        /\ option[i] # Empty => credential[i] = option[i]
        /\ option[i] = Empty =>
             \E s \in seen[i] : /\ Covering(s, PrimaryScope(path[i])) # {}
                                /\ s.token = credential[i] /\ Usable(s)

\* A secret made for the doc, there with its token during the whole ATTACH, is
\* the one used: general ones never take its place, in whatever order and with
\* whatever scopes they were created (attach.rs:49-53).
DocSecretWins ==
    \A i \in Instances :
        LET own(S) == {s \in S : PrimaryScope(path[i]) \in s.scope} IN
        phase[i] = "attached" /\ option[i] = Empty /\ own(steady[i]) # {}
            /\ (\A s \in own(seen[i]) : Usable(s))
          => \E s \in own(seen[i]) : s.token = credential[i]

\* The README's quick start: a secret created without a SCOPE is enough to
\* attach any doc; "missing credential" is said only when there was none such all
\* along, or another secret for the general scope had no token to give
\* (README.md:11-16, attach.rs:54-57).
UnscopedSecretSuffices ==
    \A i \in Instances : phase[i] = "missing credential" =>
        \/ \A s \in steady[i] : s.unscoped => ~Usable(s)
        \/ \E s \in seen[i] : Prefix \in s.scope /\ ~Usable(s)
=============================================================================
