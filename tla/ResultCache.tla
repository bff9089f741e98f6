---------------------------- MODULE ResultCache ----------------------------
(***************************************************************************)
(* The resident's cache of finished translations (cache.rs): bounded, in   *)
(* the order of insertion, with an age limit.  A cache is a sequence of    *)
(* entries; the operators take the clock as an argument.                   *)
(***************************************************************************)
EXTENDS Naturals, Sequences, SequencesExt

CONSTANTS Capacity,     \* of ResultCache::new
          MaxAge        \* ttl

(* CacheKey::from_prepared_with_identity: what the provider is sent, and   *)
(* where text and answer come from, but not the job.                       *)
CacheKey(request, source, identity) ==
    [target |-> request.target, context |-> request.context, profile |-> request.profile,
     model |-> request.model, inference |-> request.inference, prompt |-> request.prompt,
     source |-> source, provider |-> identity]

Entry(key, output, now) == [key |-> key, output |-> output, at |-> now]

(* remove_expired *)
RemoveExpired(cache, now) == SelectSeq(cache, LAMBDA entry : now - entry.at <= MaxAge)

(* insert: the key's older answer goes, then the oldest entries in excess. *)
Insert(cache, key, output, now) ==
    LET others == SelectSeq(cache, LAMBDA entry : entry.key # key)
        all == Append(others, Entry(key, output, now))
        excess == IF Len(all) > Capacity THEN Len(all) - Capacity ELSE 0
    IN  IF Capacity = 0 THEN cache ELSE SubSeq(all, excess + 1, Len(all))

(* get, which forgets what is too old first. *)
Lookup(cache, key, now) ==
    LET fresh == RemoveExpired(cache, now)
    IN  [cache |-> fresh,
         output |-> {fresh[i].output : i \in {i \in DOMAIN fresh : fresh[i].key = key}}]
=============================================================================
