----------------------------- MODULE VaultSecrets -----------------------------
(***************************************************************************)
(* VaultSecretManager (src/app/core/secrets.py): one secret in Vault and   *)
(* the manager's cached copy of it.  get_secret and set_secret are calls   *)
(* of threads that wait for Vault, so a read may cache what a write or a   *)
(* rotation has replaced meanwhile.  A secret's value is its version.      *)
(*                                                                         *)
(* The cached entries of different keys meet only in clear_cache.  Vault   *)
(* is external, and so is the rotation (scripts/ops/rotate-secrets.py      *)
(* writes to Vault and never touches the manager).                         *)
(***************************************************************************)
EXTENDS Integers, Sequences

CONSTANTS Clients,       \* threads, each with one call at a time
          CacheTtl,      \* cache_ttl
          ReadTime,      \* bound on the time from Vault's read to the end of get_secret
          NoEntry,       \* the key is not in _cache
          MaxVersions,   \* bound: versions of the secret
          MaxVaultTime   \* bound: the clock

ASSUME VaultAssumption ==
    /\ CacheTtl \in Nat \ {0} /\ ReadTime \in Nat
    /\ MaxVersions \in Nat \ {0} /\ MaxVaultTime \in Nat

VARIABLES vault,       \* when each version was written; the last one is current
          secretCache, \* _cache[key]
          client,      \* where each thread is in its call
          vaultClock,  \* time.time()
          stored,      \* newest version for which set_secret has returned True
          overtaken    \* was _cache[key] stored by a read during which a set_secret finished?

vaultVars == <<vault, secretCache, client, vaultClock, stored, overtaken>>

Current == Len(vault)

\* "fetched" has Vault's answer; "wrote" has had its version written.
Resting == [at |-> "idle", version |-> 0, since |-> 0, floor |-> 0]

VaultTypeOK ==
    /\ vault \in Seq(Nat) /\ Current \in 1..MaxVersions
    /\ secretCache = NoEntry \/ secretCache \in [version : 1..MaxVersions, time : 0..vaultClock]
    /\ client \in [Clients -> [at : {"idle", "asking", "fetched", "writing", "wrote"},
                               version : 0..MaxVersions, since : Nat, floor : 0..MaxVersions]]
    /\ vaultClock \in Nat
    /\ stored \in 0..MaxVersions
    /\ overtaken \in BOOLEAN

VaultInit ==
    /\ vault = <<0>>
    /\ secretCache = NoEntry
    /\ client = [c \in Clients |-> Resting]
    /\ vaultClock = 0
    /\ stored = 0
    /\ overtaken = FALSE

-----------------------------------------------------------------------------

\* Time passes, but no fetched secret waits for its thread longer than ReadTime.
VaultTick ==
    /\ vaultClock < MaxVaultTime
    /\ \A c \in Clients : client[c].at = "fetched" => vaultClock - client[c].since < ReadTime
    /\ vaultClock' = vaultClock + 1
    /\ UNCHANGED <<vault, secretCache, client, stored, overtaken>>

\* The rotation script writes a new version.
Rotate ==
    /\ Current < MaxVersions
    /\ vault' = Append(vault, vaultClock)
    /\ UNCHANGED <<secretCache, client, vaultClock, stored, overtaken>>

\* Fault: an entry is still good at the end of its time to live.
FreshTooLong == secretCache # NoEntry /\ vaultClock - secretCache.time <= CacheTtl

\* An entry that get_secret answers with, changing nothing.
Fresh == secretCache # NoEntry /\ vaultClock - secretCache.time < CacheTtl

\* get_secret is called and asks Vault; floor is what set_secret has completed by now.
GetSecret(c) ==
    /\ client[c].at = "idle"
    /\ ~Fresh
    /\ client' = [client EXCEPT ![c].at = "asking", ![c].floor = stored]
    /\ UNCHANGED <<vault, secretCache, vaultClock, stored, overtaken>>

\* Vault reads the current version, or the request fails and the default is returned.
VaultReads(c) ==
    /\ client[c].at = "asking"
    /\ \/ client' = [client EXCEPT ![c].at = "fetched", ![c].version = Current,
                                   ![c].since = vaultClock]
       \/ client' = [client EXCEPT ![c] = Resting]
    /\ UNCHANGED <<vault, secretCache, vaultClock, stored, overtaken>>

\* get_secret caches the value as of now and returns it.
CacheSecret(c) ==
    /\ client[c].at = "fetched"
    /\ secretCache' = [version |-> client[c].version, time |-> vaultClock]
    /\ overtaken' = (client[c].floor < stored)
    /\ client' = [client EXCEPT ![c] = Resting]
    /\ UNCHANGED <<vault, vaultClock, stored>>

\* set_secret is called.
SetSecret(c) ==
    /\ client[c].at = "idle"
    /\ client' = [client EXCEPT ![c].at = "writing"]
    /\ UNCHANGED <<vault, secretCache, vaultClock, stored, overtaken>>

\* Vault writes a new version, or the request fails before it does.
VaultWrites(c) ==
    /\ client[c].at = "writing"
    /\ \/ /\ Current < MaxVersions
          /\ vault' = Append(vault, vaultClock)
          /\ client' = [client EXCEPT ![c].at = "wrote", ![c].version = Current + 1]
       \/ /\ client' = [client EXCEPT ![c] = Resting]
          /\ UNCHANGED vault
    /\ UNCHANGED <<secretCache, vaultClock, stored, overtaken>>

\* Fault: the entry stays.
SetReturnsUninvalidated(c) ==
    /\ client[c].at = "wrote"
    /\ client' = [client EXCEPT ![c] = Resting]
    /\ stored' = IF client[c].version > stored THEN client[c].version ELSE stored
    /\ UNCHANGED <<vault, vaultClock, secretCache, overtaken>>

\* set_secret removes the entry and returns True, or the answer was lost: it returns
\* False and leaves the entry.
SetReturns(c) ==
    /\ client[c].at = "wrote"
    /\ client' = [client EXCEPT ![c] = Resting]
    /\ \/ /\ secretCache' = NoEntry
          /\ stored' = IF client[c].version > stored THEN client[c].version ELSE stored
          /\ overtaken' = FALSE
       \/ UNCHANGED <<secretCache, stored, overtaken>>
    /\ UNCHANGED <<vault, vaultClock>>

ClearSecretCache ==
    /\ secretCache' = NoEntry
    /\ overtaken' = FALSE
    /\ UNCHANGED <<vault, client, vaultClock, stored>>

VaultNext ==
    \/ VaultTick \/ Rotate \/ ClearSecretCache
    \/ \E c \in Clients : \/ GetSecret(c) \/ VaultReads(c) \/ CacheSecret(c)
                          \/ SetSecret(c) \/ VaultWrites(c) \/ SetReturns(c)

VaultSpec == VaultInit /\ [][VaultNext]_vaultVars

-----------------------------------------------------------------------------
(* Properties.                                                               *)

\* How long ago version v was superseded; 0 while it is current.
Superseded(v) == IF v = Current THEN 0 ELSE vaultClock - vault[v + 1]

\* A secret that was rotated or rewritten is answered from the cache for less than
\* CacheTtl after it was stored there, which is at most ReadTime after Vault read it: the
\* two waits add up, and nothing else does (secrets.py:299).
StaleBound == Fresh => Superseded(secretCache.version) <= CacheTtl - 1 + ReadTime

\* A get_secret called after a set_secret has returned True does not answer an older
\* value, from Vault or from the cache, unless a read during which a set_secret finished
\* has put its value back since (secrets.py:309, :338).
ReadYourWrites ==
    /\ Fresh /\ secretCache.version < stored => overtaken
    /\ \A c \in Clients : client[c].at = "fetched" => client[c].version >= client[c].floor
=============================================================================
