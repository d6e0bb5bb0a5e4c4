-------------------------- MODULE ConfigPolicyProofs --------------------------
(***************************************************************************)
(* The published configuration follows the profile its metadata names, for *)
(* any number of knobs and any profile.                                    *)
(***************************************************************************)
EXTENDS ConfigPolicy, SequenceTheorems, TLAPS

Cached == Values \cup {"default", "stored"}

PlatformOK ==
  /\ profile \in Seq(Overrides)
  /\ flash \in [Knobs -> Found]

BootOK ==
  /\ cache \in [Knobs -> Cached]
  /\ next \in Nat \ {0}
  /\ active \in {0, GENERIC_PROFILE_INDEX}
  /\ list \in Seq(Cached)

(***************************************************************************)
(* What each phase of the boot has achieved.                               *)
(***************************************************************************)
Untouched ==
  pc \in {"size", "select"} =>
    cache = Defaults /\ list = <<>> /\ next = 1 /\ active = GENERIC_PROFILE_INDEX

Applied ==
  pc = "apply" =>
    /\ list = <<>> /\ active = 0
    /\ next - 1 <= Len(profile)
    /\ \A k \in Knobs : Gives(next - 1, k, cache[k])

RolledBack ==
  pc = "rollback" =>
    /\ list = <<>>
    /\ next <= Len(profile)
    /\ \A k \in Knobs : cache[k] = "default" \/ \E i \in 1..next : profile[i].knob = k

Populated ==
  pc = "populate" =>
    /\ next <= KnobCount + 1
    /\ Len(list) = next - 1
    /\ \A k \in Knobs : k < next - 1 => Decided(active, k, list[k + 1])
    /\ \A k \in Knobs : k >= next - 1 => FromProfile(active, k, cache[k])

Complete ==
  pc = "publish" =>
    /\ metadata = active
    /\ Len(list) = KnobCount
    /\ \A k \in Knobs : Decided(active, k, list[k + 1])

NotYetPublished == pc # "end" => policy = <<>>

ConfigInv ==
  /\ PlatformOK /\ BootOK
  /\ Untouched /\ Applied /\ RolledBack /\ Populated /\ Complete
  /\ NotYetPublished /\ PolicyFollowsProfile

-----------------------------------------------------------------------------
(***************************************************************************)
(* The generated profile is a sequence of overrides of any length.         *)
(***************************************************************************)
LEMMA ProfilesAreSequences == Profiles \subseteq Seq(Overrides)
BY IsASeq, ConfigAssumption DEF Profiles

LEMMA ConfigInvInit == ConfigInit => ConfigInv
<1> SUFFICES ASSUME ConfigInit PROVE ConfigInv
  OBVIOUS
<1>1. PlatformOK
  BY ProfilesAreSequences DEF ConfigInit, PlatformOK
<1>2. BootOK
  BY DEF ConfigInit, BootOK, Defaults, Cached
<1>3. QED
  BY <1>1, <1>2 DEF ConfigInit, ConfigInv, Untouched, Applied, RolledBack, Populated,
                    Complete, NotYetPublished, PolicyFollowsProfile

(***************************************************************************)
(* An override extends what the profile gives by one position.             *)
(***************************************************************************)
LEMMA GivesExtends ==
  ASSUME PlatformOK, BootOK, NEW k \in Knobs,
         next <= Len(profile), Gives(next - 1, k, cache[k])
  PROVE  LET v == IF profile[next].knob = k THEN profile[next].value ELSE cache[k]
         IN  Gives(next, k, v)
<1> USE DEF PlatformOK, BootOK
<1>1. CASE profile[next].knob = k
  <2>1. next \in 1..next /\ \A j \in (next + 1)..next : profile[j].knob # k
    OBVIOUS
  <2>2. QED
    BY <1>1, <2>1 DEF Gives
<1>2. CASE profile[next].knob # k
  <2>1. \A j \in 1..next : j \in 1..(next - 1) \/ j = next
    OBVIOUS
  <2>2. \A i \in 1..(next - 1) : \A j \in (i + 1)..next : j \in (i + 1)..(next - 1) \/ j = next
    OBVIOUS
  <2>3. 1..(next - 1) \subseteq 1..next
    OBVIOUS
  <2>4. Gives(next, k, cache[k])
    BY <1>2, <2>1, <2>2, <2>3 DEF Gives
  <2>5. QED
    BY <1>2, <2>4
<1>3. QED
  BY <1>1, <1>2

-----------------------------------------------------------------------------
(***************************************************************************)
(* One step of the boot preserves the invariant.                           *)
(***************************************************************************)
LEMMA ConfigInvNext == ConfigInv /\ [ConfigNext]_configVars => ConfigInv'
<1> SUFFICES ASSUME ConfigInv, [ConfigNext]_configVars PROVE ConfigInv'
  OBVIOUS
<1> USE ConfigAssumption
<1> USE DEF ConfigInv
<1>1. CASE UNCHANGED configVars
  BY <1>1 DEF configVars, platformVars, PlatformOK, BootOK, Untouched, Applied, RolledBack,
              Populated, Complete, NotYetPublished, PolicyFollowsProfile, Gives, FromProfile,
              Decided
<1>2. ASSUME Fail, UNCHANGED platformVars, pc # "end" PROVE ConfigInv'
  BY <1>2 DEF Fail, platformVars, PlatformOK, BootOK, Untouched, Applied, RolledBack,
              Populated, Complete, NotYetPublished, PolicyFollowsProfile
<1>3. CASE SizePolicy
  <2>1. CASE pc' = "select" /\ UNCHANGED <<active, next, cache, list, metadata, policy>>
    BY <1>3, <2>1 DEF SizePolicy, platformVars, PlatformOK, BootOK, Untouched, Applied,
         RolledBack, Populated, Complete, NotYetPublished, PolicyFollowsProfile
  <2>2. QED
    BY <1>2, <1>3, <2>1 DEF SizePolicy
<1>4. CASE SelectProfile
  <2> USE <1>4 DEF SelectProfile
  <2>1. PlatformOK' /\ BootOK' /\ NotYetPublished' /\ Untouched' /\ RolledBack' /\ Complete'
          /\ PolicyFollowsProfile'
    BY DEF platformVars, PlatformOK, BootOK, NotYetPublished, Untouched, RolledBack, Complete,
           PolicyFollowsProfile, gNumProfiles, GetActiveProfileIndex, GENERIC_PROFILE_INDEX
  <2>2. cache = Defaults /\ list = <<>> /\ next = 1
    BY DEF Untouched
  <2>3. Applied'
    BY <2>2 DEF Applied, platformVars, PlatformOK, Gives, Defaults, gNumProfiles,
                GetActiveProfileIndex, GENERIC_PROFILE_INDEX
  <2>4. Populated'
    BY <2>2 DEF Populated, platformVars, FromProfile, Defaults, Knobs, gNumProfiles,
                GetActiveProfileIndex, GENERIC_PROFILE_INDEX
  <2>5. QED
    BY <2>1, <2>3, <2>4
<1>5. CASE ApplyOverride
  <2> USE <1>5 DEF ApplyOverride
  <2>1. profile[next] \in Overrides /\ profile[next].knob \in Knobs
    <3>1. next \in 1..Len(profile)
      BY DEF PlatformOK, BootOK
    <3>2. profile[next] \in Overrides
      BY <3>1, ElementOfSeq DEF PlatformOK
    <3>3. QED
      BY <3>2 DEF Overrides, Applicable, Knobs
  <2>2. PlatformOK' /\ BootOK' /\ NotYetPublished' /\ Untouched' /\ RolledBack' /\ Populated'
          /\ Complete' /\ PolicyFollowsProfile'
    BY <2>1 DEF platformVars, PlatformOK, BootOK, Cached, Overrides, NotYetPublished, Untouched,
                RolledBack, Populated, Complete, PolicyFollowsProfile
  <2>3. ASSUME NEW k \in Knobs PROVE Gives(next - 1, k, cache[k])'
    <3>1. Gives(next, k, IF profile[next].knob = k THEN profile[next].value ELSE cache[k])
      BY GivesExtends DEF Applied
    <3>2. next' - 1 = next /\ UNCHANGED profile
      BY DEF BootOK, platformVars
    <3>3. cache'[k] = IF profile[next].knob = k THEN profile[next].value ELSE cache[k]
      BY DEF BootOK
    <3>4. QED
      BY <3>1, <3>2, <3>3 DEF Gives
  <2>4. list' = <<>> /\ active' = 0 /\ (next - 1 <= Len(profile))'
    BY DEF Applied, platformVars, BootOK, PlatformOK
  <2>5. Applied'
    BY <2>3, <2>4 DEF Applied
  <2>6. QED
    BY <2>2, <2>5
<1>6. CASE FinishProfile
  <2> USE <1>6 DEF FinishProfile
  <2>1. PlatformOK' /\ BootOK' /\ NotYetPublished' /\ Untouched' /\ RolledBack' /\ Applied'
          /\ Complete' /\ PolicyFollowsProfile'
    BY DEF platformVars, PlatformOK, BootOK, NotYetPublished, Untouched, RolledBack, Applied,
           Complete, PolicyFollowsProfile
  <2>2. next - 1 = Len(profile)
    BY DEF Applied, BootOK, PlatformOK
  <2>3. \A k \in Knobs : FromProfile(active, k, cache[k])
    BY <2>2 DEF Applied, FromProfile, GENERIC_PROFILE_INDEX
  <2>4. Populated'
    BY <2>3 DEF Populated, Applied, platformVars, FromProfile, Gives, Knobs
  <2>5. QED
    BY <2>1, <2>4
<1>7. CASE RefuseProfile
  <2> USE <1>7 DEF RefuseProfile
  <2>1. PlatformOK' /\ BootOK' /\ NotYetPublished' /\ Untouched' /\ Applied'
          /\ Complete' /\ PolicyFollowsProfile'
    BY DEF platformVars, PlatformOK, BootOK, NotYetPublished, Untouched, Applied,
           Complete, PolicyFollowsProfile
  <2>2. \A k \in Knobs : cache[k] = "default" \/ \E i \in 1..(next - 1) : profile[i].knob = k
    BY DEF Applied, Gives
  <2>3. RolledBack'
    BY <2>2 DEF RolledBack, Applied, platformVars, BootOK, PlatformOK
  <2>4. Populated'
    BY <2>2 DEF Populated, Applied, platformVars, FromProfile, Knobs
  <2>5. QED
    BY <2>1, <2>3, <2>4
<1>8. CASE RollBack
  <2> USE <1>8 DEF RollBack
  <2>0. cache' \in [Knobs -> Cached]
    BY DEF BootOK, Cached
  <2>1. PlatformOK' /\ BootOK' /\ NotYetPublished' /\ Untouched' /\ Applied'
          /\ Complete' /\ PolicyFollowsProfile'
    BY <2>0 DEF platformVars, PlatformOK, BootOK, NotYetPublished, Untouched, Applied,
                Complete, PolicyFollowsProfile
  <2>2. \A k \in Knobs : cache'[k] = "default" \/ \E i \in 1..(next - 1) : profile[i].knob = k
    BY DEF RolledBack, BootOK
  <2>3. RolledBack'
    BY <2>2 DEF RolledBack, platformVars, BootOK, PlatformOK
  <2>4. Populated'
    BY <2>2 DEF Populated, RolledBack, platformVars, FromProfile, Knobs
  <2>5. QED
    BY <2>1, <2>3, <2>4
<1>9. CASE PopulateKnob
  <2> USE <1>9 DEF PopulateKnob
  <2> DEFINE knob == next - 1
  <2>1. CASE /\ flash[knob] # "error"
             /\ cache' = [cache EXCEPT ![knob] = Overridden(knob)]
             /\ list' = Append(list, cache'[knob])
             /\ next' = next + 1
             /\ UNCHANGED <<pc, active, metadata, policy>>
    <3> USE <2>1
    <3>1. knob \in Knobs /\ knob + 1 = next /\ Len(list) = knob
      BY DEF BootOK, Knobs, Populated
    <3>2. Overridden(knob) \in Cached /\ cache'[knob] = Overridden(knob)
      BY <3>1 DEF BootOK, Overridden, Cached
    <3>3. list' \in Seq(Cached) /\ Len(list') = next /\ list'[next] = Overridden(knob)
            /\ \A i \in 1..knob : list'[i] = list[i]
      BY <3>1, <3>2 DEF BootOK
    <3>4. /\ PlatformOK' /\ BootOK' /\ NotYetPublished' /\ Untouched' /\ Applied' /\ RolledBack'
          /\ Complete' /\ PolicyFollowsProfile'
      <4>1. PlatformOK'
        BY DEF platformVars, PlatformOK
      <4>2. BootOK'
        BY <3>1, <3>2, <3>3 DEF BootOK
      <4>3. QED
        BY <4>1, <4>2 DEF NotYetPublished, Untouched, Applied, RolledBack, Complete,
                          PolicyFollowsProfile
    <3>5. Decided(active, knob, Overridden(knob))
      BY <3>1 DEF Decided, Overridden, Populated, PlatformOK, Found
    <3>6. \A k \in Knobs : k < next => Decided(active, k, list'[k + 1])
      <4>1. \A k \in Knobs : k < knob => k + 1 \in 1..knob
        BY <3>1 DEF Knobs
      <4>2. \A k \in Knobs : k < next => k < knob \/ k = knob
        BY <3>1 DEF Knobs
      <4>3. \A k \in Knobs : k < knob => Decided(active, k, list[k + 1])
        BY DEF Populated
      <4>4. QED
        BY <3>1, <3>3, <3>5, <4>1, <4>2, <4>3
    <3>7. \A k \in Knobs : k >= next => FromProfile(active, k, cache'[k])
      <4>1. \A k \in Knobs : k >= next => k >= knob /\ k # knob
        BY <3>1 DEF Knobs
      <4>2. QED
        BY <4>1 DEF Populated, BootOK
    <3>8. next' - 1 = next /\ next' <= KnobCount + 1
      BY DEF BootOK
    <3>9. Populated'
      <4>1. ASSUME NEW k \in Knobs PROVE (k < next - 1 => Decided(active, k, list[k + 1]))'
        <5>1. (k < next - 1)' => Decided(active, k, list'[k + 1])
          BY <3>6, <3>8
        <5>2. Decided(active, k, list'[k + 1]) => Decided(active, k, list[k + 1])'
          BY DEF platformVars, Decided, FromProfile, Gives
        <5>3. QED
          BY <5>1, <5>2
      <4>2. ASSUME NEW k \in Knobs PROVE (k >= next - 1 => FromProfile(active, k, cache[k]))'
        <5>1. (k >= next - 1)' => FromProfile(active, k, cache'[k])
          BY <3>7, <3>8
        <5>2. FromProfile(active, k, cache'[k]) => FromProfile(active, k, cache[k])'
          BY DEF platformVars, FromProfile, Gives
        <5>3. QED
          BY <5>1, <5>2
      <4>3. Len(list') = next' - 1
        BY <3>3, <3>8
      <4>4. QED
        BY <3>8, <4>1, <4>2, <4>3 DEF Populated
    <3>10. QED
      BY <3>4, <3>9
  <2>2. QED
    BY <1>2, <2>1
<1>10. CASE PublishMetadata
  <2> USE <1>10 DEF PublishMetadata
  <2>1. CASE /\ metadata' = active
             /\ pc' = "publish"
             /\ UNCHANGED <<active, next, cache, list, policy>>
    <3>1. PlatformOK' /\ BootOK' /\ NotYetPublished' /\ Untouched' /\ Applied' /\ RolledBack'
            /\ Populated' /\ PolicyFollowsProfile'
      BY <2>1 DEF platformVars, PlatformOK, BootOK, NotYetPublished, Untouched, Applied,
                  RolledBack, Populated, PolicyFollowsProfile
    <3>2. next = KnobCount + 1 /\ \A k \in Knobs : k < next - 1
      BY DEF Populated, BootOK, Knobs
    <3>3. Len(list) = KnobCount /\ \A k \in Knobs : Decided(active, k, list[k + 1])
      BY <3>2 DEF Populated
    <3>4. Complete'
      BY <2>1, <3>3 DEF Complete, platformVars, Decided, FromProfile, Gives
    <3>5. QED
      BY <3>1, <3>4
  <2>2. QED
    BY <1>2, <2>1
<1>11. CASE OemConfigPolicyCreatorPeiEntry
  <2> USE <1>11 DEF OemConfigPolicyCreatorPeiEntry
  <2>1. CASE /\ policy' = list
             /\ pc' = "end"
             /\ UNCHANGED <<active, next, cache, list, metadata>>
    <3>1. PlatformOK' /\ BootOK' /\ NotYetPublished' /\ Untouched' /\ Applied' /\ RolledBack'
            /\ Populated' /\ Complete'
      BY <2>1 DEF platformVars, PlatformOK, BootOK, NotYetPublished, Untouched, Applied,
                  RolledBack, Populated, Complete
    <3>2. PolicyFollowsProfile'
      BY <2>1 DEF PolicyFollowsProfile, Complete, BootOK, platformVars, Decided, FromProfile,
                  Gives
    <3>3. QED
      BY <3>1, <3>2
  <2>2. QED
    BY <1>2, <2>1
<1>12. CASE NextBoot
  <2>1. PlatformOK' /\ BootOK'
    BY <1>12 DEF NextBoot, PlatformOK, BootOK, Defaults, Cached
  <2>2. QED
    BY <1>12, <2>1 DEF NextBoot, Untouched, Applied, RolledBack, Populated, Complete,
                       NotYetPublished, PolicyFollowsProfile
<1>13. QED
  BY <1>1, <1>3, <1>4, <1>5, <1>6, <1>7, <1>8, <1>9, <1>10, <1>11, <1>12 DEF ConfigNext

(***************************************************************************)
(* In every boot the published configuration is what the stored overrides  *)
(* and the one profile named by the metadata policy decide.                *)
(***************************************************************************)
THEOREM PolicyCorrect == ConfigSpec => []PolicyFollowsProfile
<1>1. ConfigInv => PolicyFollowsProfile
  BY DEF ConfigInv
<1>2. QED
  BY ConfigInvInit, ConfigInvNext, <1>1, PTL DEF ConfigSpec
=============================================================================
