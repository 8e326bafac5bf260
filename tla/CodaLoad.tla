------------------------------ MODULE CodaLoad ------------------------------
(***************************************************************************)
(* LOAD coda and CREATE SECRET (src/cpp/rust_bridge_extension.cpp and      *)
(* rust_ext_extension_load in src/exports.rs).                             *)
(*                                                                         *)
(* Several DuckDB instances of one process load the extension, each on a   *)
(* thread of its own.  What the host registers belongs to an instance; the *)
(* secret configuration, SecretConfigs(), belongs to the process and is    *)
(* guarded by a lock.  DuckDB calls CreateConfigSecret as soon as the      *)
(* function is registered, which is before the load has ended.             *)
(*                                                                         *)
(* A scope is a sequence of symbols: Prefix, "coda:" in the code, and the  *)
(* letters of a doc id.  DuckDB's secret manager (external) keeps the      *)
(* secrets of an instance by name.                                         *)
(***************************************************************************)
EXTENDS Naturals, Sequences

CONSTANTS
    Instances,      \* DuckDB instances in the process
    SecretNames,    \* names of secrets
    GivenScopes,    \* SCOPE clauses users write: sets of scopes
    Tokens,         \* non-empty API tokens
    Empty,          \* the empty token
    NoKey,          \* the token of a secret created without TOKEN
    NoConfig, NoSecret,
    Prefix,         \* SECRET_SCOPE_PREFIX, as a scope
    MaxCreates      \* CREATE and DROP SECRET statements of an instance: a bound

Values == Tokens \cup {Empty, NoKey}
Scope  == (UNION GivenScopes) \cup {Prefix}

\* unscoped is history: the statement had no SCOPE clause.
Secret == [scope : SUBSET Scope, token : Values, unscoped : BOOLEAN]
Config == [default_scope : {Prefix}]

ASSUME LoadAssumption ==
    /\ {} \in GivenScopes
    /\ MaxCreates \in Nat
    /\ Tokens \cap {Empty, NoKey} = {} /\ Empty # NoKey
    /\ NoConfig \notin Config /\ NoSecret \notin Secret

VARIABLES
    secret_configs,     \* SecretConfigs(): the entry of type "coda"
    secret_types,       \* instances with the secret type
    secret_functions,   \* instances with the create-secret function
    storage_extensions, \* instances in which ATTACH (TYPE coda) is known
    loading,            \* where the LOAD of an instance is
    secrets,            \* the secret manager of each instance
    creates,            \* CREATE and DROP SECRET statements so far
    created             \* how the last CREATE SECRET of an instance ended

registry == <<secret_configs, secret_types, secret_functions, storage_extensions>>
store    == <<secrets, creates, created>>
loadVars == <<registry, loading, store>>

Steps   == {"no", "describe", "configure", "type", "function", "storage", "loaded", "failed"}
Created == {"none", "created", "missing configuration", "unknown parameter"}

LoadTypeOK ==
    /\ secret_configs \in Config \cup {NoConfig}
    /\ secret_types \subseteq Instances
    /\ secret_functions \subseteq Instances
    /\ storage_extensions \subseteq Instances
    /\ loading \in [Instances -> Steps]
    /\ secrets \in [Instances -> [SecretNames -> Secret \cup {NoSecret}]]
    /\ creates \in [Instances -> 0..MaxCreates]
    /\ created \in [Instances -> Created]

LoadInit ==
    /\ secret_configs = NoConfig
    /\ secret_types = {}
    /\ secret_functions = {}
    /\ storage_extensions = {}
    /\ loading = [i \in Instances |-> "no"]
    /\ secrets = [i \in Instances |-> [n \in SecretNames |-> NoSecret]]
    /\ creates = [i \in Instances |-> 0]
    /\ created = [i \in Instances |-> "none"]
-----------------------------------------------------------------------------
(* LOAD: three calls back into C++; an exception there ends the load and   *)
(* leaves what was registered before it.                                   *)

At(i, step, then) ==
    /\ loading[i] = step
    /\ loading' = [loading EXCEPT ![i] = then]

\* LOAD of an extension that is not loaded, the first time or after a failure.
StartLoad(i) ==
    /\ loading[i] \in {"no", "failed"}
    /\ loading' = [loading EXCEPT ![i] = "describe"]
    /\ UNCHANGED <<registry, store>>

SetDescription(i) ==
    /\ At(i, "describe", "configure")
    /\ UNCHANGED <<registry, store>>

\* HostRegisterConfigSecret: under the lock, every load stores the same entry;
\* then, without it, the type and the function.
\* Mutant form: the entry is stored by the load that finds the storage extension
\* registered, as if it were needed by ATTACH only.
StoreConfig_Late(i) ==
    /\ At(i, "configure", "type")
    /\ secret_configs' = IF storage_extensions = {} THEN secret_configs ELSE [default_scope |-> Prefix]
    /\ UNCHANGED <<secret_types, secret_functions, storage_extensions, store>>
StoreConfig(i) ==
    /\ At(i, "configure", "type")
    /\ secret_configs' = [default_scope |-> Prefix]
    /\ UNCHANGED <<secret_types, secret_functions, storage_extensions, store>>

\* Whether DuckDB takes a type that an earlier, failed load has left in the
\* instance is its own affair: refusing it is LoadFails.
RegisterSecretType(i) ==
    /\ At(i, "type", "function")
    /\ secret_types' = secret_types \cup {i}
    /\ UNCHANGED <<secret_configs, secret_functions, storage_extensions, store>>

RegisterFunction(i) ==
    /\ At(i, "function", "storage")
    /\ secret_functions' = secret_functions \cup {i}
    /\ UNCHANGED <<secret_configs, secret_types, storage_extensions, store>>

RegisterStorageExtension(i) ==
    /\ At(i, "storage", "loaded")
    /\ storage_extensions' = storage_extensions \cup {i}
    /\ UNCHANGED <<secret_configs, secret_types, secret_functions, store>>

\* The host throws in one of the calls.
LoadFails(i) ==
    /\ loading[i] \notin {"no", "configure", "loaded", "failed"}
    /\ loading' = [loading EXCEPT ![i] = "failed"]
    /\ UNCHANGED <<registry, store>>

Load(i) ==
    \/ StartLoad(i) \/ SetDescription(i) \/ StoreConfig(i) \/ RegisterSecretType(i)
    \/ RegisterFunction(i) \/ RegisterStorageExtension(i) \/ LoadFails(i)
-----------------------------------------------------------------------------
(* CREATE SECRET: CreateConfigSecret, and what DuckDB does with its result. *)

\* The scopes of a new secret: those given, or the configured one.
\* Mutant form: a secret without a SCOPE clause has none.
ScopesOf_None(given) == given
ScopesOf(given) == IF given = {} THEN {secret_configs.default_scope} ELSE given

NewSecret(given, token) ==
    [scope |-> ScopesOf(given), token |-> token, unscoped |-> given = {}]

CountCreate(i) ==
    /\ creates[i] < MaxCreates
    /\ creates' = [creates EXCEPT ![i] = @ + 1]

\* CREATE OR REPLACE SECRET; token is NoKey when the TOKEN clause is missing.
CreateConfigSecret(i, name, given, token) ==
    /\ i \in secret_functions
    /\ CountCreate(i)
    /\ IF secret_configs = NoConfig
       THEN /\ created' = [created EXCEPT ![i] = "missing configuration"]
            /\ UNCHANGED secrets
       ELSE /\ created' = [created EXCEPT ![i] = "created"]
            /\ secrets' = [secrets EXCEPT ![i][name] = NewSecret(given, token)]
    /\ UNCHANGED <<registry, loading>>

\* A parameter other than secret_key: CanonicalSecretParameterName knows no
\* other.  The secret is dropped before DuckDB sees it.
CreateWithUnknownParameter(i) ==
    /\ i \in secret_functions
    /\ CountCreate(i)
    /\ created' = [created EXCEPT ![i] = IF secret_configs = NoConfig
                                         THEN "missing configuration" ELSE "unknown parameter"]
    /\ UNCHANGED <<registry, loading, secrets>>

DropSecret(i, name) ==
    /\ secrets[i][name] # NoSecret
    /\ CountCreate(i)
    /\ secrets' = [secrets EXCEPT ![i][name] = NoSecret]
    /\ UNCHANGED <<registry, loading, created>>

CreateSecret(i) ==
    \/ \E name \in SecretNames, given \in GivenScopes, token \in Values :
           CreateConfigSecret(i, name, given, token)
    \/ CreateWithUnknownParameter(i)
    \/ \E name \in SecretNames : DropSecret(i, name)

LoadNext == \E i \in Instances : Load(i) \/ CreateSecret(i)

LoadSpec == LoadInit /\ [][LoadNext]_loadVars
-----------------------------------------------------------------------------
(* Properties.                                                             *)

\* CREATE SECRET never fails for want of the configuration: it is stored before
\* the function that reads it can be called, by any load of the process
\* (rust_bridge_extension.cpp:62-71, 107-121).
ConfigurationIsThere == \A i \in Instances : created[i] # "missing configuration"
=============================================================================
