-------------------------- MODULE CodaAttachProofs --------------------------
(***************************************************************************)
(* Proofs about CodaLoad and CodaAttach, for any number of instances,      *)
(* secrets, scopes and docs: no CREATE SECRET misses its configuration,    *)
(* and the credential of an ATTACH is the right one whatever happens to    *)
(* the secrets between its two lookups.                                    *)
(***************************************************************************)
EXTENDS CodaAttach, TLAPS

(* Prefixes.                                                               *)

LEMMA PrefixOfItself ==
    ASSUME NEW t \in Seq(STRING)
    PROVE  IsPrefix(t, t)
BY DEF IsPrefix

LEMMA PrefixIsShorter ==
    ASSUME NEW x \in Seq(STRING), NEW t \in Seq(STRING), IsPrefix(x, t)
    PROVE  Len(x) <= Len(t)
BY DEF IsPrefix

LEMMA LongPrefixIsAll ==
    ASSUME NEW x \in Seq(STRING), NEW t \in Seq(STRING), IsPrefix(x, t), Len(t) <= Len(x)
    PROVE  x = t
<1>1. Len(x) = Len(t) /\ SubSeq(x, 1, Len(x)) = SubSeq(t, 1, Len(x))
  BY DEF IsPrefix
<1>2. SubSeq(x, 1, Len(x)) = x /\ SubSeq(t, 1, Len(t)) = t
  OBVIOUS
<1>3. QED
  BY <1>1, <1>2

LEMMA PrefixOfLonger ==
    ASSUME NEW x \in Seq(STRING), NEW t \in Seq(STRING), NEW r \in Seq(STRING), IsPrefix(x, t)
    PROVE  IsPrefix(x, t \o r)
<1>1. Len(x) <= Len(t) /\ Len(t \o r) = Len(t) + Len(r) /\ t \o r \in Seq(STRING)
  BY DEF IsPrefix
<1>2. SubSeq(x, 1, Len(x)) = SubSeq(t, 1, Len(x))
  BY DEF IsPrefix
<1>3. SubSeq(t \o r, 1, Len(x)) = SubSeq(t, 1, Len(x))
  BY <1>1
<1>4. QED
  BY <1>1, <1>2, <1>3 DEF IsPrefix

LEMMA Targets ==
    /\ Scope \subseteq Seq(STRING) /\ Prefix \in Seq(STRING)
    /\ \A p \in Paths : /\ Resource(p) \in Seq(STRING)
                        /\ PrimaryScope(p) \in Seq(STRING)
                        /\ PrimaryScope(p) = Prefix \o Resource(p)
<1>1. Scope \subseteq Seq(STRING) /\ Prefix \in Seq(STRING) /\ Paths \subseteq Seq(STRING)
  <2>1. Prefix \in Scope
    BY DEF Scope
  <2>2. QED
    BY <2>1, AttachAssumption
<1>2. ASSUME NEW p \in Paths
      PROVE  Resource(p) \in Seq(STRING) /\ PrimaryScope(p) \in Seq(STRING)
  <2>1. p \in Seq(STRING) /\ Len(Prefix) \in Nat
    BY <1>1
  <2>2. SubSeq(p, Len(Prefix) + 1, Len(p)) \in Seq(STRING)
    BY <2>1
  <2>3. Resource(p) \in Seq(STRING)
    BY <2>1, <2>2 DEF Resource
  <2>4. QED
    BY <1>1, <2>3 DEF PrimaryScope
<1>3. QED
  BY <1>1, <1>2 DEF PrimaryScope

\* If a secret is made for the target itself, LookupSecret finds one, and each it
\* may find is made for the target.
LEMMA ExactScopeWins ==
    ASSUME NEW S \in SUBSET Secret, NEW target \in Seq(STRING),
           NEW t \in S, target \in t.scope
    PROVE  /\ Matches(S, target) # {}
           /\ \A s \in Matches(S, target) : target \in s.scope
<1>1. \A s \in S : \A x \in Covering(s, target) : x \in Seq(STRING) /\ IsPrefix(x, target)
  BY Targets DEF Covering, Secret
<1>2. target \in Covering(t, target)
  BY PrefixOfItself DEF Covering
<1>3. t \in Matches(S, target)
  BY <1>1, <1>2, PrefixIsShorter DEF Matches
<1>4. ASSUME NEW s \in Matches(S, target) PROVE target \in s.scope
  <2>1. PICK x \in Covering(s, target) : Len(target) <= Len(x)
    BY <1>2 DEF Matches
  <2>2. s \in S
    BY DEF Matches
  <2>3. x = target
    BY <1>1, <2>1, <2>2, LongPrefixIsAll
  <2>4. QED
    BY <2>1, <2>3 DEF Covering
<1>5. QED
  BY <1>3, <1>4

\* What a lookup returns comes from a secret that the instance holds.
LEMMA LookupFinds ==
    ASSUME NEW i \in Instances, NEW target, NEW token \in LookupSecret(i, target),
           token # Empty \/ Matches(Held(i), target) # {}
    PROVE  \E s \in Held(i) : /\ s \in Matches(Held(i), target) /\ s.token = token
                              /\ Covering(s, target) # {}
<1>1. Matches(Held(i), target) # {}
  BY DEF LookupSecret
<1>2. PICK s \in Matches(Held(i), target) : s.token = token
  BY <1>1 DEF LookupSecret
<1>3. QED
  BY <1>2 DEF Matches
-----------------------------------------------------------------------------
(* LOAD and CREATE SECRET.                                                 *)

ConfigFirst ==
    /\ secret_functions # {} => secret_configs # NoConfig
    /\ \A i \in Instances : loading[i] \in {"type", "function", "storage"}
                                => secret_configs # NoConfig
    /\ \A i \in Instances, n \in SecretNames :
          secrets[i][n] # NoSecret /\ secrets[i][n].unscoped => secrets[i][n].scope = {Prefix}

LoadInv == LoadTypeOK /\ ConfigFirst /\ ConfigurationIsThere

LEMMA Bounds == MaxCreates \in Nat /\ MaxAttaches \in Nat
BY LoadAssumption, AttachAssumption

LEMMA InitLoad == LoadInit => LoadInv
BY Bounds DEF LoadInit, LoadInv, LoadTypeOK, ConfigFirst, ConfigurationIsThere, Steps, Created

LEMMA LoadKeepsInv ==
    ASSUME LoadInv, NEW i \in Instances, Load(i)
    PROVE  LoadInv'
<1> USE DEF LoadInv, LoadTypeOK, ConfigFirst, ConfigurationIsThere, Steps, registry, store
<1>1. [default_scope |-> Prefix] \in Config
  BY DEF Config
<1>2. [default_scope |-> Prefix] # NoConfig
  BY <1>1, LoadAssumption
<1>3. CASE StartLoad(i)
  BY <1>3 DEF StartLoad
<1>4. CASE SetDescription(i)
  BY <1>4 DEF SetDescription, At
<1>5. CASE StoreConfig(i)
  BY <1>1, <1>2, <1>5 DEF StoreConfig, At
<1>6. CASE RegisterSecretType(i)
  BY <1>6 DEF RegisterSecretType, At
<1>7. CASE RegisterFunction(i)
  BY <1>7 DEF RegisterFunction, At
<1>8. CASE RegisterStorageExtension(i)
  BY <1>8 DEF RegisterStorageExtension, At
<1>9. CASE LoadFails(i)
  BY <1>9 DEF LoadFails
<1>10. QED
  BY <1>3, <1>4, <1>5, <1>6, <1>7, <1>8, <1>9 DEF Load

\* A new secret is one, and without a SCOPE clause it is for the general scope.
LEMMA NewSecretType ==
    ASSUME LoadInv, secret_configs # NoConfig,
           NEW given \in GivenScopes, NEW token \in Values
    PROVE  /\ NewSecret(given, token) \in Secret
           /\ NewSecret(given, token).unscoped => NewSecret(given, token).scope = {Prefix}
<1>1. secret_configs.default_scope = Prefix
  BY DEF LoadInv, LoadTypeOK, Config
<1>2. ScopesOf(given) \in SUBSET Scope /\ (given = {} => ScopesOf(given) = {Prefix})
  <2>1. given \subseteq Scope /\ Prefix \in Scope
    BY DEF Scope
  <2>2. QED
    BY <1>1, <2>1 DEF ScopesOf
<1>3. QED
  BY <1>2 DEF NewSecret, Secret

LEMMA CreateKeepsInv ==
    ASSUME LoadInv, NEW i \in Instances, CreateSecret(i)
    PROVE  LoadInv'
<1>1. creates[i] < MaxCreates => creates[i] + 1 \in 0..MaxCreates
  <2>1. creates[i] \in 0..MaxCreates
    BY DEF LoadInv, LoadTypeOK
  <2>2. QED
    BY <2>1, Bounds
<1> USE DEF LoadInv, LoadTypeOK, ConfigFirst, ConfigurationIsThere, Created, registry, CountCreate
<1>2. ASSUME NEW n \in SecretNames, NEW given \in GivenScopes, NEW token \in Values,
             CreateConfigSecret(i, n, given, token)
      PROVE  LoadInv'
  <2>1. secret_configs # NoConfig
    BY <1>2 DEF CreateConfigSecret
  <2>2. /\ NewSecret(given, token) \in Secret
        /\ NewSecret(given, token).unscoped => NewSecret(given, token).scope = {Prefix}
    BY <2>1, NewSecretType
  <2> DEFINE new == NewSecret(given, token)
  <2> HIDE DEF new
  <2>3. secrets' = [secrets EXCEPT ![i][n] = new] /\ created' = [created EXCEPT ![i] = "created"]
    BY <1>2, <2>1 DEF CreateConfigSecret, new
  <2>4. secrets' \in [Instances -> [SecretNames -> Secret \cup {NoSecret}]]
    BY <2>2, <2>3 DEF new
  <2>5. \A j \in Instances, m \in SecretNames :
            secrets'[j][m] # NoSecret /\ secrets'[j][m].unscoped => secrets'[j][m].scope = {Prefix}
    BY <2>2, <2>3 DEF new
  <2>6. QED
    BY <1>1, <1>2, <2>3, <2>4, <2>5 DEF CreateConfigSecret
<1>3. CASE CreateWithUnknownParameter(i)
  BY <1>1, <1>3 DEF CreateWithUnknownParameter
<1>4. ASSUME NEW n \in SecretNames, DropSecret(i, n) PROVE LoadInv'
  BY <1>1, <1>4 DEF DropSecret
<1>5. QED
  BY <1>2, <1>3, <1>4 DEF CreateSecret

LEMMA NextLoad == LoadInv /\ [LoadNext]_loadVars => LoadInv'
<1> SUFFICES ASSUME LoadInv, [LoadNext]_loadVars PROVE LoadInv'
  OBVIOUS
<1>1. CASE LoadNext
  BY <1>1, LoadKeepsInv, CreateKeepsInv DEF LoadNext
<1>2. CASE UNCHANGED loadVars
  BY <1>2 DEF loadVars, registry, store, LoadInv, LoadTypeOK, ConfigFirst, ConfigurationIsThere
<1>3. QED
  BY <1>1, <1>2
-----------------------------------------------------------------------------
(* ATTACH.  The three properties of an instance, and what holds between    *)
(* its two lookups: the histories enclose the secrets held, and the first  *)
(* lookup has passed by the doc's own secrets for a reason.                *)

Own(S, i) == {s \in S : PrimaryScope(path[i]) \in s.scope}

OwnMissed(i) == Own(steady[i], i) = {} \/ \E s \in Own(seen[i], i) : ~Usable(s)

CredentialRight(i) ==
    phase[i] = "attached" =>
        /\ option[i] # Empty => credential[i] = option[i]
        /\ option[i] = Empty =>
             \E s \in seen[i] : /\ Covering(s, PrimaryScope(path[i])) # {}
                                /\ s.token = credential[i] /\ Usable(s)

DocWins(i) ==
    phase[i] = "attached" /\ option[i] = Empty =>
        OwnMissed(i) \/ \E s \in Own(seen[i], i) : s.token = credential[i]

UnscopedUsed(i) ==
    phase[i] = "missing credential" =>
        \/ \A s \in steady[i] : s.unscoped => ~Usable(s)
        \/ \E s \in seen[i] : Prefix \in s.scope /\ ~Usable(s)

Mine(i) ==
    /\ phase[i] \in {"primary", "fallback"} =>
          option[i] = Empty /\ steady[i] \subseteq Held(i) /\ Held(i) \subseteq seen[i]
    /\ phase[i] = "fallback" => OwnMissed(i)
    /\ \A s \in seen[i] : s.unscoped => s.scope = {Prefix}
    /\ CredentialRight(i) /\ DocWins(i) /\ UnscopedUsed(i)

AttachInv == TypeOK /\ LoadInv /\ \A i \in Instances : Mine(i)

LEMMA HeldType ==
    ASSUME LoadInv, NEW i \in Instances
    PROVE  Held(i) \subseteq Secret /\ \A s \in Held(i) : s.unscoped => s.scope = {Prefix}
BY DEF LoadInv, LoadTypeOK, ConfigFirst, Held

LEMMA OpenPhases ==
    ASSUME TypeOK, NEW i \in Instances
    PROVE  phase[i] \notin Ended <=> phase[i] \in {"primary", "fallback"}
BY DEF TypeOK, Phases, Ended, Errors

\* What is Mine depends on the variables of the instance only.
LEMMA MineStays ==
    ASSUME NEW i \in Instances, Mine(i),
           phase'[i] = phase[i], path'[i] = path[i], option'[i] = option[i],
           credential'[i] = credential[i], seen'[i] = seen[i], steady'[i] = steady[i],
           secrets'[i] = secrets[i]
    PROVE  Mine(i)'
<1>1. Held(i)' = Held(i)
  BY DEF Held
<1>2. OwnMissed(i)' = OwnMissed(i)
  BY DEF OwnMissed, Own
<1>3. CredentialRight(i)' = CredentialRight(i)
  BY DEF CredentialRight
<1>4. DocWins(i)' = DocWins(i)
  BY <1>2 DEF DocWins, Own
<1>5. UnscopedUsed(i)' = UnscopedUsed(i)
  BY DEF UnscopedUsed
<1>6. QED
  BY <1>1, <1>2, <1>3, <1>4, <1>5 DEF Mine

LEMMA StartKeepsInv ==
    ASSUME AttachInv, NEW i \in Instances, NEW p \in Paths, NEW token \in Tokens \cup {Empty},
           NEW m \in Metadata, NEW f \in BOOLEAN, StartAttach(i, p, token, m, f)
    PROVE  AttachInv'
<1> DEFINE next == AfterOptions(p, token, m, f)
<1>1. /\ next \in {"option failed", "empty doc id", "invalid boolean", "attached", "primary"}
      /\ next = "attached" => token # Empty
      /\ next = "primary" => token = Empty
  BY DEF AfterOptions
<1> HIDE DEF next
<1>2. /\ path' = [path EXCEPT ![i] = p] /\ option' = [option EXCEPT ![i] = token]
      /\ phase' = [phase EXCEPT ![i] = next]
      /\ credential' = [credential EXCEPT ![i] = IF next = "attached" THEN token ELSE Empty]
      /\ seen' = [seen EXCEPT ![i] = Held(i)] /\ steady' = [steady EXCEPT ![i] = Held(i)]
      /\ attaches[i] < MaxAttaches /\ attaches' = [attaches EXCEPT ![i] = attaches[i] + 1]
      /\ UNCHANGED loadVars
  BY DEF StartAttach, next
<1>3. LoadInv' /\ LoadTypeOK' /\ Held(i)' = Held(i)
  BY <1>2 DEF AttachInv, loadVars, registry, store, LoadInv, LoadTypeOK, ConfigFirst,
              ConfigurationIsThere, Held
<1>4. TypeOK'
  <2>1. attaches[i] + 1 \in 0..MaxAttaches
    <3>1. attaches[i] \in 0..MaxAttaches
      BY DEF AttachInv, TypeOK
    <3>2. QED
      BY <1>2, <3>1, Bounds
  <2>2. Held(i) \in SUBSET Secret
    BY HeldType DEF AttachInv
  <2>3. next \in Phases
    BY <1>1 DEF Phases, Ended, Errors
  <2>4. attaches' \in [Instances -> 0..MaxAttaches]
    BY <1>2, <2>1 DEF AttachInv, TypeOK
  <2>5. seen' \in [Instances -> SUBSET Secret] /\ steady' \in [Instances -> SUBSET Secret]
    BY <1>2, <2>2 DEF AttachInv, TypeOK
  <2>6. phase' \in [Instances -> Phases] /\ path' \in [Instances -> Paths]
    BY <1>2, <2>3 DEF AttachInv, TypeOK
  <2>7. option' \in [Instances -> Tokens \cup {Empty}]
    BY <1>2 DEF AttachInv, TypeOK
  <2>8. credential' \in [Instances -> Tokens \cup {Empty}]
    BY <1>2 DEF AttachInv, TypeOK
  <2>9. QED
    BY <1>3, <2>4, <2>5, <2>6, <2>7, <2>8 DEF TypeOK
<1>5. Mine(i)'
  <2>1. /\ phase'[i] = next /\ option'[i] = token /\ seen'[i] = Held(i) /\ steady'[i] = Held(i)
        /\ credential'[i] = IF next = "attached" THEN token ELSE Empty
    BY <1>2 DEF AttachInv, TypeOK
  <2>2. CredentialRight(i)' /\ DocWins(i)' /\ UnscopedUsed(i)'
    BY <1>1, <2>1 DEF CredentialRight, DocWins, UnscopedUsed
  <2>3. \A s \in seen'[i] : s.unscoped => s.scope = {Prefix}
    BY <2>1, HeldType DEF AttachInv
  <2>4. QED
    BY <1>1, <1>3, <2>1, <2>2, <2>3 DEF Mine
<1>6. ASSUME NEW j \in Instances, j # i PROVE Mine(j)'
  <2>1. Mine(j)
    BY DEF AttachInv
  <2>2. secrets'[j] = secrets[j]
    BY <1>2 DEF loadVars, store
  <2>3. QED
    BY <1>2, <1>6, <2>1, <2>2, MineStays DEF AttachInv, TypeOK
<1>7. QED
  BY <1>3, <1>4, <1>5, <1>6 DEF AttachInv

\* A step that sets the phase and the credential of one instance, to what its
\* properties allow.
LEMMA AnswerKeepsInv ==
    ASSUME AttachInv, NEW i \in Instances,
           NEW then \in Phases, NEW token \in Tokens \cup {Empty},
           phase' = [phase EXCEPT ![i] = then], credential' = [credential EXCEPT ![i] = token],
           UNCHANGED <<path, option, attaches, seen, steady, loadVars>>,
           Mine(i)'
    PROVE  AttachInv'
<1>1. LoadInv' /\ LoadTypeOK' /\ UNCHANGED secrets
  BY DEF AttachInv, loadVars, registry, store, LoadInv, LoadTypeOK, ConfigFirst,
         ConfigurationIsThere
<1>2. TypeOK'
  BY <1>1 DEF AttachInv, TypeOK
<1>3. ASSUME NEW j \in Instances, j # i PROVE Mine(j)'
  <2>1. Mine(j)
    BY DEF AttachInv
  <2>2. phase'[j] = phase[j] /\ credential'[j] = credential[j]
    BY <1>3 DEF AttachInv, TypeOK
  <2>3. QED
    BY <1>1, <2>1, <2>2, MineStays
<1>4. QED
  BY <1>1, <1>2, <1>3 DEF AttachInv

\* The token of a lookup, what it comes from and what it means for the secrets
\* made for the target.
LEMMA LookupMeans ==
    ASSUME AttachInv, NEW i \in Instances, NEW target \in Seq(STRING),
           NEW token \in LookupSecret(i, target)
    PROVE  /\ token \in Values
           /\ token # Empty => \E s \in Held(i) : s.token = token /\ Covering(s, target) # {}
           /\ (\E t \in Held(i) : target \in t.scope)
                => \E s \in Held(i) : s.token = token /\ target \in s.scope
<1>1. Held(i) \in SUBSET Secret
  BY HeldType DEF AttachInv
<1>2. CASE Matches(Held(i), target) = {}
  <2>1. token = Empty /\ token \in Values
    BY <1>2 DEF LookupSecret, Values
  <2>2. ~ \E t \in Held(i) : target \in t.scope
    BY <1>1, <1>2, ExactScopeWins
  <2>3. QED
    BY <2>1, <2>2
<1>3. CASE Matches(Held(i), target) # {}
  <2>1. PICK s \in Held(i) : /\ s \in Matches(Held(i), target) /\ s.token = token
                             /\ Covering(s, target) # {}
    BY <1>3, LookupFinds
  <2>2. token \in Values
    BY <1>1, <2>1 DEF Secret
  <2>3. ASSUME NEW t \in Held(i), target \in t.scope PROVE target \in s.scope
    BY <1>1, <2>1, <2>3, ExactScopeWins
  <2>4. QED
    BY <2>1, <2>2, <2>3
<1>4. QED
  BY <1>2, <1>3

\* How a lookup ends.
LEMMA LookupEnds ==
    ASSUME AttachInv, NEW i \in Instances, NEW from \in {"primary", "fallback"},
           NEW target \in Seq(STRING), NEW onEmpty \in {"fallback", "missing credential"},
           Lookup(i, from, target, onEmpty)
    PROVE  \E then \in {"lookup failed", "attached", onEmpty}, token \in LookupSecret(i, target) :
             /\ phase[i] = from /\ phase' = [phase EXCEPT ![i] = then]
             /\ then = "attached" => token \in Tokens
             /\ then = onEmpty => token = Empty
             /\ credential' = [credential EXCEPT ![i] = IF token = NoKey THEN Empty ELSE token]
             /\ (IF token = NoKey THEN Empty ELSE token) \in Tokens \cup {Empty}
             /\ UNCHANGED <<path, option, attaches, seen, steady, loadVars>>
<1>1. PICK token \in LookupSecret(i, target) :
        /\ phase' = [phase EXCEPT ![i] = IF token = NoKey THEN "lookup failed"
                                         ELSE IF token = Empty THEN onEmpty ELSE "attached"]
        /\ credential' = [credential EXCEPT ![i] = IF token = NoKey THEN Empty ELSE token]
  BY DEF Lookup
<1>2. token \in Tokens \cup {Empty, NoKey}
  BY LookupMeans DEF Values
<1> DEFINE then == IF token = NoKey THEN "lookup failed"
                   ELSE IF token = Empty THEN onEmpty ELSE "attached"
<1>3. /\ then \in {"lookup failed", "attached", onEmpty}
      /\ then = "attached" => token \in Tokens
      /\ then = onEmpty => token = Empty
  BY <1>2
<1>4. phase[i] = from /\ UNCHANGED <<path, option, attaches, seen, steady, loadVars>>
  BY DEF Lookup
<1>5. (IF token = NoKey THEN Empty ELSE token) \in Tokens \cup {Empty}
  BY <1>2
<1> HIDE DEF then
<1>6. phase' = [phase EXCEPT ![i] = then]
  BY <1>1 DEF then
<1>7. QED
  BY <1>1, <1>3, <1>4, <1>5, <1>6

LEMMA PrimaryKeepsInv ==
    ASSUME AttachInv, NEW i \in Instances, LookupPrimary(i)
    PROVE  AttachInv'
<1> DEFINE target == PrimaryScope(path[i])
<1>1. target \in Seq(STRING) /\ path[i] \in Paths
  BY Targets DEF AttachInv, TypeOK
<1> HIDE DEF target
<1>2. PICK then \in {"lookup failed", "attached", "fallback"}, token \in LookupSecret(i, target) :
        /\ phase[i] = "primary" /\ phase' = [phase EXCEPT ![i] = then]
        /\ then = "attached" => token \in Tokens
        /\ then = "fallback" => token = Empty
        /\ credential' = [credential EXCEPT ![i] = IF token = NoKey THEN Empty ELSE token]
        /\ (IF token = NoKey THEN Empty ELSE token) \in Tokens \cup {Empty}
        /\ UNCHANGED <<path, option, attaches, seen, steady, loadVars>>
  BY <1>1, LookupEnds DEF LookupPrimary, target
<1>3. /\ token # Empty => \E s \in Held(i) : s.token = token /\ Covering(s, target) # {}
      /\ (\E t \in Held(i) : target \in t.scope)
           => \E s \in Held(i) : s.token = token /\ target \in s.scope
  BY <1>1, LookupMeans
<1>4. /\ option[i] = Empty /\ steady[i] \subseteq Held(i) /\ Held(i) \subseteq seen[i]
      /\ \A s \in seen[i] : s.unscoped => s.scope = {Prefix}
  BY <1>2 DEF AttachInv, Mine
<1>5. Empty \notin Tokens /\ NoKey \notin Tokens
  BY LoadAssumption
<1>6. Own(steady[i], i) = {} \/ \E s \in Own(seen[i], i) : s.token = token
  BY <1>3, <1>4 DEF Own, target
<1>7. UNCHANGED <<path, option, seen, steady, secrets>> /\ Held(i)' = Held(i)
  BY <1>2 DEF loadVars, store, Held
<1>8. phase'[i] = then /\ then \in Phases
      /\ (then = "attached" => credential'[i] = token)
  BY <1>2, <1>5 DEF AttachInv, TypeOK, Phases, Ended, Errors
<1>9. CredentialRight(i)'
  BY <1>2, <1>3, <1>4, <1>5, <1>7, <1>8 DEF CredentialRight, Usable, target
<1>10. DocWins(i)'
  BY <1>2, <1>6, <1>7, <1>8 DEF DocWins, OwnMissed, Own
<1>11. then = "fallback" => OwnMissed(i)'
  BY <1>2, <1>5, <1>6, <1>7 DEF OwnMissed, Own, Usable
<1>12. Mine(i)'
  BY <1>2, <1>4, <1>7, <1>8, <1>9, <1>10, <1>11 DEF Mine, UnscopedUsed
<1>13. QED
  BY <1>2, <1>8, <1>12, AnswerKeepsInv

\* What covers the general scope covers the doc.
LEMMA GeneralCoversDoc ==
    ASSUME NEW s \in Secret, NEW p \in Paths, Covering(s, Prefix) # {}
    PROVE  Covering(s, PrimaryScope(p)) # {}
<1>1. PICK x \in s.scope : IsPrefix(x, Prefix)
  BY DEF Covering
<1>2. x \in Seq(STRING) /\ Prefix \in Seq(STRING) /\ Resource(p) \in Seq(STRING)
  BY Targets DEF Secret
<1>3. IsPrefix(x, Prefix \o Resource(p))
  BY <1>1, <1>2, PrefixOfLonger
<1>4. QED
  BY <1>1, <1>3 DEF Covering, PrimaryScope

LEMMA FallbackKeepsInv ==
    ASSUME AttachInv, NEW i \in Instances, LookupFallback(i)
    PROVE  AttachInv'
<1>1. Prefix \in Seq(STRING) /\ path[i] \in Paths
  BY Targets DEF AttachInv, TypeOK
<1>2. PICK then \in {"lookup failed", "attached", "missing credential"},
           token \in LookupSecret(i, Prefix) :
        /\ phase[i] = "fallback" /\ phase' = [phase EXCEPT ![i] = then]
        /\ then = "attached" => token \in Tokens
        /\ then = "missing credential" => token = Empty
        /\ credential' = [credential EXCEPT ![i] = IF token = NoKey THEN Empty ELSE token]
        /\ (IF token = NoKey THEN Empty ELSE token) \in Tokens \cup {Empty}
        /\ UNCHANGED <<path, option, attaches, seen, steady, loadVars>>
  BY <1>1, LookupEnds DEF LookupFallback, FallbackScope
<1>3. /\ token # Empty => \E s \in Held(i) : s.token = token /\ Covering(s, Prefix) # {}
      /\ (\E t \in Held(i) : Prefix \in t.scope)
           => \E s \in Held(i) : s.token = token /\ Prefix \in s.scope
  BY <1>1, LookupMeans
<1>4. /\ option[i] = Empty /\ steady[i] \subseteq Held(i) /\ Held(i) \subseteq seen[i]
      /\ \A s \in seen[i] : s.unscoped => s.scope = {Prefix}
      /\ OwnMissed(i) /\ Held(i) \subseteq Secret
  BY <1>2, HeldType DEF AttachInv, Mine
<1>5. Empty \notin Tokens /\ NoKey \notin Tokens
  BY LoadAssumption
<1>6. UNCHANGED <<path, option, seen, steady, secrets>> /\ Held(i)' = Held(i)
  BY <1>2 DEF loadVars, store, Held
<1>7. phase'[i] = then /\ then \in Phases
      /\ (then = "attached" => credential'[i] = token)
  BY <1>2, <1>5 DEF AttachInv, TypeOK, Phases, Ended, Errors
<1>8. CredentialRight(i)'
  <2>1. token # Empty => \E s \in seen[i] : s.token = token
                                            /\ Covering(s, PrimaryScope(path[i])) # {}
    BY <1>1, <1>3, <1>4, GeneralCoversDoc
  <2>2. QED
    BY <1>2, <1>5, <1>6, <1>7, <2>1, <1>4 DEF CredentialRight, Usable
<1>9. DocWins(i)'
  BY <1>4, <1>6, <1>7 DEF DocWins, OwnMissed, Own
<1>10. UnscopedUsed(i)'
  <2>1. CASE \E t \in Held(i) : Prefix \in t.scope
    BY <1>2, <1>3, <1>4, <1>5, <1>6, <1>7, <2>1 DEF UnscopedUsed, Usable
  <2>2. CASE \A t \in Held(i) : Prefix \notin t.scope
    BY <1>4, <1>6, <1>7, <2>2 DEF UnscopedUsed
  <2>3. QED
    BY <2>1, <2>2
<1>11. Mine(i)'
  BY <1>2, <1>4, <1>6, <1>7, <1>8, <1>9, <1>10 DEF Mine
<1>12. QED
  BY <1>2, <1>7, <1>11, AnswerKeepsInv

LEMMA FailureKeepsInv ==
    ASSUME AttachInv, NEW i \in Instances, LookupFails(i)
    PROVE  AttachInv'
<1>1. /\ phase' = [phase EXCEPT ![i] = "lookup failed"]
      /\ UNCHANGED <<path, option, credential, attaches, seen, steady, loadVars>>
  BY DEF LookupFails
<1>2. phase'[i] = "lookup failed" /\ "lookup failed" \in Phases
  BY <1>1 DEF AttachInv, TypeOK, Phases, Ended, Errors
<1>3. /\ credential' = [credential EXCEPT ![i] = credential[i]]
      /\ credential[i] \in Tokens \cup {Empty}
  BY <1>1 DEF AttachInv, TypeOK
<1>4. Mine(i)'
  BY <1>1, <1>2 DEF AttachInv, Mine, CredentialRight, DocWins, UnscopedUsed
<1>5. QED
  BY <1>1, <1>2, <1>3, <1>4, AnswerKeepsInv

LEMMA FollowKeepsInv ==
    ASSUME AttachInv, LoadNext, Follow
    PROVE  AttachInv'
<1>1. LoadInv'
  BY NextLoad DEF AttachInv
<1>2. ASSUME NEW i \in Instances
      PROVE  /\ Held(i)' = HeldNext(i)
             /\ Held(i)' \subseteq Secret
             /\ \A s \in Held(i)' : s.unscoped => s.scope = {Prefix}
  BY <1>1 DEF LoadInv, LoadTypeOK, ConfigFirst, Held, HeldNext
<1>3. /\ seen' = [i \in Instances |-> IF phase[i] \in Ended THEN seen[i]
                                      ELSE seen[i] \cup HeldNext(i)]
      /\ steady' = [i \in Instances |-> IF phase[i] \in Ended THEN steady[i]
                                        ELSE steady[i] \cap HeldNext(i)]
      /\ UNCHANGED <<phase, path, option, credential, attaches>>
  BY DEF Follow
<1>4. TypeOK'
  <2>1. LoadTypeOK'
    BY <1>1 DEF LoadInv
  <2>2. \A i \in Instances : HeldNext(i) \in SUBSET Secret
    BY <1>2
  <2>3. seen' \in [Instances -> SUBSET Secret] /\ steady' \in [Instances -> SUBSET Secret]
    BY <1>3, <2>2 DEF AttachInv, TypeOK
  <2>4. QED
    BY <1>3, <2>1, <2>3 DEF AttachInv, TypeOK
<1>5. ASSUME NEW i \in Instances, phase[i] \in Ended PROVE Mine(i)'
  <2>1. Mine(i) /\ phase[i] \notin {"primary", "fallback"}
    BY <1>5, OpenPhases DEF AttachInv
  <2>2. /\ seen'[i] = seen[i] /\ steady'[i] = steady[i] /\ path'[i] = path[i]
        /\ phase'[i] = phase[i] /\ option'[i] = option[i] /\ credential'[i] = credential[i]
    BY <1>3, <1>5
  <2>3. CredentialRight(i)' /\ DocWins(i)' /\ UnscopedUsed(i)'
    BY <2>1, <2>2 DEF Mine, CredentialRight, DocWins, UnscopedUsed, OwnMissed, Own
  <2>4. QED
    BY <2>1, <2>2, <2>3 DEF Mine
<1>6. ASSUME NEW i \in Instances, phase[i] \notin Ended PROVE Mine(i)'
  <2>1. Mine(i) /\ phase[i] \in {"primary", "fallback"}
    BY <1>6, OpenPhases DEF AttachInv
  <2>2. /\ seen'[i] = seen[i] \cup Held(i)' /\ steady'[i] = steady[i] \cap Held(i)'
        /\ path'[i] = path[i] /\ phase'[i] = phase[i] /\ option'[i] = option[i]
    BY <1>2, <1>3, <1>6
  <2>3. \A s \in seen'[i] : s.unscoped => s.scope = {Prefix}
    BY <1>2, <2>1, <2>2 DEF Mine
  <2>4. phase[i] = "fallback" => OwnMissed(i)'
    BY <2>1, <2>2 DEF Mine, OwnMissed, Own
  <2>5. CredentialRight(i)' /\ DocWins(i)' /\ UnscopedUsed(i)'
    BY <2>1, <2>2 DEF CredentialRight, DocWins, UnscopedUsed
  <2>6. QED
    BY <2>1, <2>2, <2>3, <2>4, <2>5 DEF Mine
<1>7. QED
  BY <1>1, <1>4, <1>5, <1>6 DEF AttachInv
-----------------------------------------------------------------------------
(* The theorems.                                                           *)

LEMMA InitAttach == Init => AttachInv
<1> SUFFICES ASSUME Init PROVE AttachInv
  OBVIOUS
<1>1. LoadInv
  BY InitLoad DEF Init
<1>2. TypeOK
  BY <1>1, Bounds DEF Init, TypeOK, LoadInv, Phases, Ended
<1>3. ASSUME NEW i \in Instances PROVE Mine(i)
  BY DEF Init, Mine, CredentialRight, DocWins, UnscopedUsed
<1>4. QED
  BY <1>1, <1>2, <1>3 DEF AttachInv

LEMMA NextAttach == AttachInv /\ [Next]_vars => AttachInv'
<1> SUFFICES ASSUME AttachInv, [Next]_vars PROVE AttachInv'
  OBVIOUS
<1>1. ASSUME NEW i \in Instances, Attach(i) PROVE AttachInv'
  BY <1>1, StartKeepsInv, PrimaryKeepsInv, FallbackKeepsInv, FailureKeepsInv DEF Attach
<1>2. CASE LoadNext /\ Follow
  BY <1>2, FollowKeepsInv
<1>3. CASE UNCHANGED vars
  <2>1. UNCHANGED <<loadVars, secrets, attachVars>> /\ LoadInv'
    BY <1>3, NextLoad DEF vars, AttachInv, loadVars, store
  <2>2. UNCHANGED <<phase, path, option, credential, attaches, seen, steady>>
    BY <2>1 DEF attachVars
  <2>3. TypeOK'
    BY <2>1, <2>2 DEF AttachInv, TypeOK, LoadInv
  <2>4. \A i \in Instances : Mine(i)'
    BY <2>1, <2>2, MineStays DEF AttachInv
  <2>5. QED
    BY <2>1, <2>3, <2>4 DEF AttachInv
<1>4. QED
  BY <1>1, <1>2, <1>3 DEF Next

THEOREM AttachInvariant == Spec => []AttachInv
BY InitAttach, NextAttach, PTL DEF Spec

\* Every variable of LOAD, CREATE SECRET and ATTACH stays in its type.
THEOREM TypeCorrect == Spec => []TypeOK
<1>1. AttachInv => TypeOK
  BY DEF AttachInv
<1>2. QED
  BY <1>1, AttachInvariant, PTL

\* CREATE SECRET never misses the configuration, however many instances of the
\* process are at whatever step of their LOAD (rust_bridge_extension.cpp:62-121).
THEOREM ConfigurationNeverMissing == Spec => []ConfigurationIsThere
<1>1. AttachInv => ConfigurationIsThere
  BY DEF AttachInv, LoadInv
<1>2. QED
  BY <1>1, AttachInvariant, PTL

\* The credential is the option's, or the token of a secret whose scope covers
\* the doc (attach.rs:48-60).
THEOREM CredentialCorrect == Spec => []CredentialIsTheDocs
<1>1. AttachInv => CredentialIsTheDocs
  BY DEF AttachInv, Mine, CredentialRight, CredentialIsTheDocs
<1>2. QED
  BY <1>1, AttachInvariant, PTL

\* A usable secret of the doc's own, there all along, is never passed over for a
\* general one (attach.rs:49-53).
THEOREM OwnSecretWins == Spec => []DocSecretWins
<1>1. AttachInv => DocSecretWins
  BY DEF AttachInv, Mine, DocWins, OwnMissed, Own, DocSecretWins
<1>2. QED
  BY <1>1, AttachInvariant, PTL

\* A usable secret without a SCOPE, there all along, is enough (attach.rs:54-57).
THEOREM UnscopedSecretIsEnough == Spec => []UnscopedSecretSuffices
<1>1. AttachInv => UnscopedSecretSuffices
  BY DEF AttachInv, Mine, UnscopedUsed, UnscopedSecretSuffices
<1>2. QED
  BY <1>1, AttachInvariant, PTL
=============================================================================
