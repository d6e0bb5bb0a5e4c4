----------------------------- MODULE ConfigPolicy -----------------------------
(***************************************************************************)
(* OemConfigPolicyCreatorPei: early in every boot the configuration knobs  *)
(* of the platform get their values from the active profile and from the   *)
(* overrides in variable storage, and the result is published as the       *)
(* configuration policy, after a metadata policy that names the profile.   *)
(*                                                                         *)
(* The knobs, their validators and the profiles are generated for each     *)
(* platform; a profile may be out of step with the knobs.  The variable    *)
(* service, the policy service and the list conversion may fail.           *)
(***************************************************************************)
EXTENDS Naturals, Sequences

CONSTANTS
  KnobCount,   \* gNumKnobs
  Values,      \* values a profile may give to a knob
  MaxCount     \* bound: overrides in a profile

ASSUME ConfigAssumption ==
  /\ KnobCount \in Nat \ {0}
  /\ MaxCount \in Nat
  /\ Values \cap {"default", "stored"} = {}

VARIABLES
  \* The platform.
  profile,    \* the overrides of gProfileData[0]; gNumProfiles is 1
  ordered,    \* the knobs with gKnobData[Knob].Knob = Knob
  flash,      \* what GetConfigKnobOverride finds for each knob
  \* The boot.
  pc,
  active,     \* ActiveProfileIndex
  next,       \* i
  cache,      \* *CacheValueAddress of each knob
  list,       \* ConfPolicy, the knobs converted so far
  metadata,   \* the metadata policy
  policy      \* the configuration policy

platformVars == <<profile, ordered, flash>>
configVars   == <<platformVars, pc, active, next, cache, list, metadata, policy>>

GENERIC_PROFILE_INDEX == 2147483647   \* MAX_UINT32; TLC's integers end here
gNumProfiles          == 1

Knobs     == 0..(KnobCount - 1)
Overrides == [knob : 0..KnobCount, value : Values]
Profiles  == UNION {[1..n -> Overrides] : n \in 0..MaxCount}

(***************************************************************************)
(* No override, or one of another size; one the knob's validator accepts,  *)
(* or that is not validated; one it refuses; any other failure.            *)
(***************************************************************************)
Found == {"none", "accepted", "refused", "error"}

Defaults == [k \in Knobs |-> "default"]

ConfigInit ==
  /\ profile \in Profiles
  /\ ordered \in SUBSET Knobs
  /\ flash \in [Knobs -> Found]
  /\ pc = "size"
  /\ active = GENERIC_PROFILE_INDEX
  /\ next = 1
  /\ cache = Defaults
  /\ list = <<>>
  /\ metadata = "none"
  /\ policy = <<>>

Fail == pc' = "end" /\ UNCHANGED <<active, next, cache, list, metadata, policy>>

(***************************************************************************)
(* The list may exceed 64K or the memory there is.                         *)
(***************************************************************************)
SizePolicy ==
  /\ pc = "size"
  /\ \/ pc' = "select" /\ UNCHANGED <<active, next, cache, list, metadata, policy>>
     \/ Fail
  /\ UNCHANGED platformVars

(***************************************************************************)
(* An index that cannot be had or is out of range is the generic one.      *)
(***************************************************************************)
GetActiveProfileIndex == {0, gNumProfiles, GENERIC_PROFILE_INDEX}

SelectProfile ==
  /\ pc = "select"
  /\ \E index \in GetActiveProfileIndex :
       IF index < gNumProfiles
       THEN pc' = "apply" /\ active' = index
       ELSE pc' = "populate" /\ active' = GENERIC_PROFILE_INDEX
  /\ UNCHANGED <<platformVars, next, cache, list, metadata, policy>>

-----------------------------------------------------------------------------
(***************************************************************************)
(* ApplyProfileOverrides.  An override of a knob that is not where it      *)
(* should be ends it; the knobs passed so far go back to their defaults.   *)
(***************************************************************************)
Applicable(knob) == knob < KnobCount /\ knob \in ordered

ApplyOverride ==
  /\ pc = "apply" /\ next <= Len(profile)
  /\ Applicable(profile[next].knob)
  /\ cache' = [cache EXCEPT ![profile[next].knob] = profile[next].value]
  /\ next' = next + 1
  /\ UNCHANGED <<platformVars, pc, active, list, metadata, policy>>

FinishProfile ==
  /\ pc = "apply" /\ next > Len(profile)
  /\ pc' = "populate"
  /\ next' = 1
  /\ UNCHANGED <<platformVars, active, cache, list, metadata, policy>>

RefuseProfile ==
  /\ pc = "apply" /\ next <= Len(profile)
  /\ ~Applicable(profile[next].knob)
  /\ IF next = 1
     THEN pc' = "populate" /\ active' = GENERIC_PROFILE_INDEX /\ UNCHANGED next
     ELSE pc' = "rollback" /\ next' = next - 1 /\ UNCHANGED active
  /\ UNCHANGED <<platformVars, cache, list, metadata, policy>>

RollBackStopsEarly ==  \* mutant: the loop ends before the first override
  /\ pc = "rollback"
  /\ cache' = IF next = 1 THEN cache ELSE [cache EXCEPT ![profile[next].knob] = "default"]
  /\ IF next = 1
     THEN pc' = "populate" /\ active' = GENERIC_PROFILE_INDEX /\ UNCHANGED next
     ELSE next' = next - 1 /\ UNCHANGED <<pc, active>>
  /\ UNCHANGED <<platformVars, list, metadata, policy>>

RollBack ==
  /\ pc = "rollback"
  /\ cache' = [cache EXCEPT ![profile[next].knob] = "default"]
  /\ IF next = 1
     THEN pc' = "populate" /\ active' = GENERIC_PROFILE_INDEX /\ UNCHANGED next
     ELSE next' = next - 1 /\ UNCHANGED <<pc, active>>
  /\ UNCHANGED <<platformVars, list, metadata, policy>>

-----------------------------------------------------------------------------
(***************************************************************************)
(* The knob's cache after the variable storage has been asked for an       *)
(* override: a value its validator refuses leaves the default.             *)
(***************************************************************************)
Overridden(k) ==
  CASE flash[k] = "accepted" -> "stored"
    [] flash[k] = "refused"  -> "default"
    [] OTHER                 -> cache[k]

PopulateKnob ==
  /\ pc = "populate" /\ next <= KnobCount
  /\ LET k == next - 1
     IN  \/ /\ flash[k] # "error"
            /\ cache' = [cache EXCEPT ![k] = Overridden(k)]
            /\ list' = Append(list, cache'[k])
            /\ next' = next + 1
            /\ UNCHANGED <<pc, active, metadata, policy>>
         \/ Fail
  /\ UNCHANGED platformVars

PublishMetadata ==
  /\ pc = "populate" /\ next > KnobCount
  /\ \/ /\ metadata' = active
        /\ pc' = "publish"
        /\ UNCHANGED <<active, next, cache, list, policy>>
     \/ Fail
  /\ UNCHANGED platformVars

OemConfigPolicyCreatorPeiEntry ==
  /\ pc = "publish"
  /\ \/ /\ policy' = list
        /\ pc' = "end"
        /\ UNCHANGED <<active, next, cache, list, metadata>>
     \/ Fail
  /\ UNCHANGED platformVars

(***************************************************************************)
(* The overrides in variable storage may have changed before the next boot.*)
(***************************************************************************)
NextBoot ==
  /\ pc = "end"
  /\ flash' \in [Knobs -> Found]
  /\ pc' = "size"
  /\ active' = GENERIC_PROFILE_INDEX
  /\ next' = 1
  /\ cache' = Defaults
  /\ list' = <<>>
  /\ metadata' = "none"
  /\ policy' = <<>>
  /\ UNCHANGED <<profile, ordered>>

ConfigNext ==
  \/ SizePolicy \/ SelectProfile
  \/ ApplyOverride \/ FinishProfile \/ RefuseProfile \/ RollBack
  \/ PopulateKnob \/ PublishMetadata \/ OemConfigPolicyCreatorPeiEntry
  \/ NextBoot

ConfigSpec == ConfigInit /\ [][ConfigNext]_configVars

-----------------------------------------------------------------------------
(***************************************************************************)
(* The first n overrides of the profile give knob k the value v: the last  *)
(* one of k does, or none is of k and v is the default.                    *)
(***************************************************************************)
Gives(n, k, v) ==
  \/ \E i \in 1..n : /\ profile[i].knob = k /\ profile[i].value = v
                     /\ \A j \in (i + 1)..n : profile[j].knob # k
  \/ v = "default" /\ \A i \in 1..n : profile[i].knob # k

FromProfile(index, k, v) ==
  IF index = GENERIC_PROFILE_INDEX THEN v = "default" ELSE Gives(Len(profile), k, v)

Decided(index, k, v) ==
  \/ flash[k] = "accepted" /\ v = "stored"
  \/ flash[k] = "refused"  /\ v = "default"
  \/ flash[k] = "none"     /\ FromProfile(index, k, v)

(***************************************************************************)
(* What is published is one profile as a whole, the one the metadata       *)
(* names: every knob has the value its stored override decides, or else    *)
(* the last one that profile gives it, or its default.  In particular a    *)
(* profile that was given up half way leaves no trace.                     *)
(***************************************************************************)
PolicyFollowsProfile ==
  policy # <<>> =>
    /\ metadata \in {0, GENERIC_PROFILE_INDEX}
    /\ Len(policy) = KnobCount
    /\ \A k \in Knobs : Decided(metadata, k, policy[k + 1])
=============================================================================
