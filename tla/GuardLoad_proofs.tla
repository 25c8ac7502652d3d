-------------------------- MODULE GuardLoad_proofs --------------------------
(***************************************************************************)
(* Proofs about GuardLoad for any link set, any executables and policies    *)
(* and any number of deaths and failures: protection that stood when a load *)
(* or a settle began does not lapse, what an interruption leaves is always  *)
(* recognised, a published guard is always claimable, and an adopted one    *)
(* stands alone.                                                            *)
(***************************************************************************)
EXTENDS GuardLoad, TLAPS

\* A load that has not published yet.
Loading == pc \in {"stage", "pin", "publish", "unwind"}

\* Where the loader is decides what is published, recorded and adopted.
PhaseInv ==
    /\ Loading => ~exists["dir"] /\ ~claimed
    /\ pc \in {"stage", "pin"} => recorded = "none"
    /\ pc = "pin" => exists[mine]
    /\ pc = "publish" => Whole(mine) /\ recorded = mine
    /\ pc \in {"replace", "settle"} => exists["dir"] /\ ~claimed
    /\ pc \in {"forget", "remove"} => claimed

\* Every directory, the published one included, is a prefix of the pin order.
PrefixInv == \A n \in Names : Inspectable(n)

\* Until its own generation is published, a load leaves what it found to the generation it keeps.
StaleInv ==
    Loading => \A i \in Links : \A p \in held[i] : \E n \in stale : i \in links[n] /\ p \in policy[n]

\* An adopted guard is taken apart only by disable.
RemovalInv ==
    /\ pc = "remove" => \A i \in Links : held[i] = {}
    /\ claimed /\ ~Whole("dir") => \A i \in Links : held[i] = {}

IInv ==
    /\ TypeOK /\ PhaseInv /\ PrefixInv /\ StaleInv /\ RemovalInv
    /\ PublishedIsRecorded /\ ClaimedAlone /\ ProtectionHeld
-----------------------------------------------------------------------------
\* One unlink of remove_pins or discard_staging touches its own directory only, and leaves there a
\* shorter prefix, or nothing.
LEMMA RemoveNextFacts ==
    ASSUME TypeOK, NEW n \in Names, RemoveNext(n)
    PROVE  /\ exists' \in [Names -> BOOLEAN] /\ maps' \in [Names -> BOOLEAN]
           /\ links' \in [Names -> SUBSET Links] /\ policy' = policy
           /\ \A m \in Names \ {n} : exists'[m] = exists[m] /\ maps'[m] = maps[m] /\ links'[m] = links[m]
           /\ links'[n] \subseteq links[n]
           /\ exists'[n] => exists[n]
           /\ \A m \in Names : ~exists'[m] => ~maps'[m] /\ links'[m] = {}
           /\ PrefixInv => PrefixInv'
<1>0. /\ exists \in [Names -> BOOLEAN] /\ maps \in [Names -> BOOLEAN]
      /\ links \in [Names -> SUBSET Links]
      /\ \A m \in Names : ~exists[m] => ~maps[m] /\ links[m] = {}
  BY Zenon DEF TypeOK
<1>1. CASE links[n] # {} /\ UNCHANGED <<exists, maps, policy>>
           /\ \E i \in links[n] : (\A j \in links[n] : j <= i) /\ links' = [links EXCEPT ![n] = @ \ {i}]
  <2>1. PICK i \in links[n] : (\A j \in links[n] : j <= i) /\ links' = [links EXCEPT ![n] = @ \ {i}]
    BY <1>1, Zenon
  <2>2. /\ links'[n] = links[n] \ {i} /\ \A m \in Names \ {n} : links'[m] = links[m]
        /\ links' \in [Names -> SUBSET Links]
    BY <1>0, <2>1, Zenon
  <2>3. exists[n]
    BY <1>0, <1>1, Zenon
  <2>4. ASSUME PrefixInv, NEW m \in Names PROVE Inspectable(m)'
    <3>1. CASE m # n
      BY <1>1, <2>2, <2>4, <3>1, Zenon DEF PrefixInv, Inspectable
    <3>2. CASE m = n
      <4>1. ASSUME NEW k \in links[n] \ {i} PROVE 1..k \subseteq links[n] \ {i}
        <5>1. 1..k \subseteq links[n]
          BY <2>4, Zenon DEF PrefixInv, Inspectable
        <5>2. i \in Nat /\ k \in Nat /\ k < i
          BY <1>0, <2>1, <4>1, SizeAssumption DEF Links
        <5>3. QED
          BY <5>1, <5>2
      <4>2. QED
        BY <1>1, <2>2, <2>4, <3>2, <4>1, Zenon DEF PrefixInv, Inspectable
    <3>3. QED
      BY <3>1, <3>2, Zenon
  <2>5. QED
    BY <1>0, <1>1, <2>2, <2>3, <2>4, Zenon DEF PrefixInv
<1>2. CASE links[n] = {} /\ maps[n] /\ maps' = [maps EXCEPT ![n] = FALSE] /\ UNCHANGED <<exists, links, policy>>
  BY <1>0, <1>2, Zenon DEF PrefixInv, Inspectable
<1>3. CASE links[n] = {} /\ ~maps[n] /\ exists' = [exists EXCEPT ![n] = FALSE] /\ UNCHANGED <<maps, links, policy>>
  BY <1>0, <1>3, Zenon DEF PrefixInv, Inspectable
<1>4. QED
  BY <1>1, <1>2, <1>3, Zenon DEF RemoveNext

\* No pin directory exists before the first load.
LEMMA InitIInv == Init => IInv
<1> SUFFICES ASSUME Init PROVE IInv
  BY Zenon
<1>1. TypeOK
  BY Zenon DEF Init, TypeOK, Names, Staging
<1>2. PhaseInv /\ StaleInv /\ RemovalInv /\ PublishedIsRecorded
  BY Zenon DEF Init, PhaseInv, StaleInv, RemovalInv, PublishedIsRecorded, Loading, Names
<1>3. PrefixInv /\ ClaimedAlone /\ ProtectionHeld
  BY Zenon DEF Init, PrefixInv, Inspectable, ClaimedAlone, ProtectionHeld, Names
<1>4. QED
  BY <1>1, <1>2, <1>3, Zenon DEF IInv

\* Unlinking in a directory that the published guard and the kept generation do not use: the room a
\* load makes, its own failed attempt, and what load or settle detaches after publication.
LEMMA RemovalKeeps ==
    ASSUME IInv, NEW n \in Staging, exists[n], RemoveNext(n),
           UNCHANGED <<controllerVars, loaderVars, held, trouble>>,
           (pc \in {"stage", "unwind"} /\ n = mine) \/ pc \in {"replace", "settle"}
    PROVE  IInv'
<1>0. /\ TypeOK /\ PhaseInv /\ PrefixInv /\ StaleInv /\ RemovalInv
      /\ PublishedIsRecorded /\ ClaimedAlone /\ ProtectionHeld
  BY Zenon DEF IInv
<1>1. n \in Names /\ n # "dir" /\ "dir" \in Names
  BY Zenon DEF Names, Staging
<1>2. /\ exists' \in [Names -> BOOLEAN] /\ maps' \in [Names -> BOOLEAN]
      /\ links' \in [Names -> SUBSET Links] /\ policy' = policy
      /\ \A m \in Names \ {n} : exists'[m] = exists[m] /\ maps'[m] = maps[m] /\ links'[m] = links[m]
      /\ exists'[n] => exists[n]
      /\ \A m \in Names : ~exists'[m] => ~maps'[m] /\ links'[m] = {}
      /\ PrefixInv'
  BY <1>0, <1>1, RemoveNextFacts, Zenon
<1>3. TypeOK'
  BY <1>0, <1>2, Zenon DEF TypeOK, controllerVars, loaderVars
<1>4. exists'["dir"] = exists["dir"] /\ (Whole("dir"))' = Whole("dir")
  BY <1>1, <1>2, Zenon DEF Whole
<1>5. ~claimed
  BY <1>0, Zenon DEF PhaseInv, Loading
<1>6. PhaseInv' /\ PublishedIsRecorded' /\ ClaimedAlone' /\ RemovalInv'
  BY <1>0, <1>4, <1>5, Zenon DEF PhaseInv, PublishedIsRecorded, ClaimedAlone, RemovalInv, Loading, controllerVars,
     loaderVars
<1>7. CASE pc \in {"stage", "unwind"} /\ n = mine
  <2>1. \A i \in Links : \A p \in held'[i] : \E m \in stale' : i \in links'[m] /\ p \in policy'[m]
    <3>1. \A i \in Links : \A p \in held[i] : \E m \in stale : i \in links[m] /\ p \in policy[m]
      BY <1>0, <1>7, Zenon DEF StaleInv, Loading
    <3>2. \A m \in stale : m \in Names \ {n}
      BY <1>0, <1>7, Zenon DEF TypeOK, Names
    <3>3. QED
      BY <1>2, <3>1, <3>2, ZenonT(120) DEF loaderVars
  <2>2. StaleInv'
    BY <2>1, Zenon DEF StaleInv
  <2>3. ProtectionHeld'
    BY <1>3, <2>1, ZenonT(120) DEF TypeOK, ProtectionHeld, Covered, Names
  <2>4. QED
    BY <1>2, <1>3, <1>6, <2>2, <2>3, Zenon DEF IInv
<1>8. CASE pc \in {"replace", "settle"}
  <2>1. Whole("dir")'
    BY <1>0, <1>4, <1>8, Zenon DEF PhaseInv, PublishedIsRecorded
  <2>2. ProtectionHeld'
    BY <1>3, <2>1, ZenonT(120) DEF TypeOK, Whole, ProtectionHeld, Covered, Names, Staging
  <2>3. StaleInv'
    BY <1>8, Zenon DEF StaleInv, Loading, loaderVars
  <2>4. QED
    BY <1>2, <1>3, <1>6, <2>2, <2>3, Zenon DEF IInv
<1>9. QED
  BY <1>7, <1>8, Zenon

\* A step that changes no directory keeps what is said of directories.
LEMMA SamePins ==
    ASSUME UNCHANGED pinVars
    PROVE  /\ \A n \in Names : Whole(n)' = Whole(n) /\ Inspectable(n)' = Inspectable(n)
           /\ \A i \in Links : Covered(i)' = Covered(i)
           /\ PrefixInv => PrefixInv'
  BY Zenon DEF pinVars, Whole, Inspectable, Covered, PrefixInv

\* A step that changes no directory and nothing the loader remembers keeps types, prefixes and
\* protection.
LEMMA QuietStep ==
    ASSUME IInv, UNCHANGED pinVars, UNCHANGED <<mine, stale, want, held>>,
           recorded' \in Names \cup {"gone", "none"}, claimed' \in BOOLEAN, trouble' \in Nat,
           pc' \in {"idle", "stage", "pin", "publish", "replace", "unwind", "settle", "forget", "remove"}
    PROVE  /\ TypeOK' /\ PrefixInv' /\ ProtectionHeld'
           /\ \A n \in Names : Whole(n)' = Whole(n)
           /\ exists' = exists /\ links' = links /\ policy' = policy
<1>1. TypeOK /\ PrefixInv /\ ProtectionHeld
  BY Zenon DEF IInv
<1>2. TypeOK'
  BY <1>1, Zenon DEF TypeOK, pinVars
<1>3. PrefixInv' /\ \A n \in Names : Whole(n)' = Whole(n)
  BY <1>1, SamePins, Zenon
<1>4. ProtectionHeld'
  BY <1>1, <1>3, SamePins, Zenon DEF ProtectionHeld, Names, pinVars
<1>5. QED
  BY <1>2, <1>3, <1>4, Zenon DEF pinVars

\* load() chooses a free staging name, or one whose generation the other covers: whatever is
\* enforced is then enforced by the generation that it keeps (covered_generation).
LEMMA LoadChoice ==
    ASSUME TypeOK, ~exists["dir"], Usable # {}, NEW i \in Links, NEW p \in Covered(i)
    PROVE  \E n \in Left \ {StagingName} : i \in links[n] /\ p \in policy[n]
<1>1. StagingName \in Usable /\ StagingName \in Staging
  BY Zenon DEF Usable, StagingName, Staging
<1>2. PICK n \in Names : i \in links[n] /\ p \in policy[n]
  BY Zenon DEF Covered
<1>3. n \in Left
  BY <1>2, Zenon DEF TypeOK, Names, Left
<1>4. CASE n # StagingName
  BY <1>2, <1>3, <1>4, Zenon
<1>5. CASE n = StagingName
  <2>1. Left = Staging /\ CoveredBy(n, Other(n))
    BY <1>1, <1>3, <1>5, Zenon DEF Usable, Left
  <2>2. Other(n) \in Left \ {n}
    BY <1>3, <2>1, Zenon DEF Other, Left, Staging
  <2>3. i \in links[Other(n)] /\ p \in policy[Other(n)]
    BY <1>2, <2>1, Zenon DEF CoveredBy
  <2>4. QED
    BY <1>5, <2>2, <2>3, Zenon
<1>6. QED
  BY <1>4, <1>5, Zenon

\* Every step of a load, a claim, a removal, a failure or a death preserves the invariant.
LEMMA NextIInv == IInv /\ [Next]_vars => IInv'
<1> SUFFICES ASSUME IInv, [Next]_vars PROVE IInv'
  BY Zenon
<1>0. /\ TypeOK /\ PhaseInv /\ PrefixInv /\ StaleInv /\ RemovalInv
      /\ PublishedIsRecorded /\ ClaimedAlone /\ ProtectionHeld
  BY Zenon DEF IInv
<1>m. mine \in Staging /\ mine \in Names /\ mine # "dir" /\ "dir" \in Names
  BY <1>0, Zenon DEF TypeOK, Names, Staging
<1>1. ASSUME NEW P \in Policies, Load(P) PROVE IInv'
  <2>1. UNCHANGED pinVars /\ UNCHANGED <<claimed, trouble>>
    BY <1>1, Zenon DEF Load
  <2>2. ~exists["dir"] /\ ~claimed /\ recorded' = "none" /\ held' = [i \in Links |-> Covered(i)]
    BY <1>1, Zenon DEF Load
  <2>3. \A i \in Links : Covered(i)' = Covered(i) /\ held'[i] = Covered(i)
    BY <2>1, <2>2, SamePins, Zenon
  <2>4. ProtectionHeld' /\ PrefixInv'
    BY <1>0, <2>1, <2>3, SamePins, Zenon DEF ProtectionHeld
  <2>5. held' \in [Links -> SUBSET Paths]
    BY <2>2, Zenon DEF Covered
  <2>6. PublishedIsRecorded' /\ ClaimedAlone'
    BY <2>1, <2>2, Zenon DEF PublishedIsRecorded, ClaimedAlone, pinVars
  <2>7. CASE UNCHANGED loaderVars
    <3>1. TypeOK'
      BY <1>0, <2>1, <2>2, <2>5, <2>7, Zenon DEF TypeOK, pinVars, loaderVars
    <3>2. PhaseInv' /\ RemovalInv' /\ StaleInv'
      BY <1>1, <2>1, <2>2, <2>7 DEF Load, PhaseInv, RemovalInv, StaleInv, Loading, pinVars, loaderVars
    <3>3. QED
      BY <2>4, <2>6, <3>1, <3>2, Zenon DEF IInv
  <2>8. CASE Usable # {} /\ pc' = "stage" /\ mine' = StagingName /\ stale' = Left \ {StagingName} /\ want' = P
    <3>1. StagingName \in Staging /\ Left \subseteq Staging
      BY Zenon DEF StagingName, Left, Staging
    <3>2. want' \in SUBSET Paths
      BY <2>8, PolicyAssumption, Zenon
    <3>3. TypeOK'
      BY <1>0, <2>1, <2>2, <2>5, <2>8, <3>1, <3>2, Zenon DEF TypeOK, pinVars
    <3>4. PhaseInv' /\ RemovalInv'
      BY <2>1, <2>2, <2>8, Zenon DEF PhaseInv, RemovalInv, Loading, pinVars
    <3>5. \A i \in Links : \A p \in Covered(i) : \E n \in stale' : i \in links[n] /\ p \in policy[n]
      BY <1>0, <2>2, <2>8, LoadChoice, Zenon
    <3>6. StaleInv'
      BY <2>1, <2>3, <3>5, ZenonT(120) DEF StaleInv, pinVars
    <3>7. QED
      BY <2>4, <2>6, <3>3, <3>4, <3>6, Zenon DEF IInv
  <2>9. QED
    BY <1>1, <2>7, <2>8, Zenon DEF Load
<1>2. CASE FreeCovered
  BY <1>m, <1>2, RemovalKeeps, Zenon DEF FreeCovered
<1>3. CASE Unwind
  BY <1>m, <1>3, RemovalKeeps, Zenon DEF Unwind
<1>4. CASE DropStale
  <2>1. PICK n \in stale : exists[n] /\ RemoveNext(n)
    BY <1>4, Zenon DEF DropStale
  <2>2. n \in Staging
    BY <1>0, Zenon DEF TypeOK
  <2>3. QED
    BY <1>4, <2>1, <2>2, RemovalKeeps, Zenon DEF DropStale
<1>5. CASE Settle
  <2>1. PICK n \in Left : RemoveNext(n)
    BY <1>5, Zenon DEF Settle
  <2>2. n \in Staging /\ exists[n]
    BY Zenon DEF Left
  <2>3. QED
    BY <1>5, <2>1, <2>2, RemovalKeeps, Zenon DEF Settle
<1>6. CASE MakeStaging
  <2>1. /\ exists' = [exists EXCEPT ![mine] = TRUE] /\ policy' = [policy EXCEPT ![mine] = want]
        /\ pc = "stage" /\ pc' = "pin" /\ ~exists[mine]
        /\ UNCHANGED <<maps, links, controllerVars, mine, stale, want, held, trouble>>
    BY <1>6, Zenon DEF MakeStaging
  <2>2. exists'["dir"] = exists["dir"] /\ exists'[mine] /\ (\A n \in Names \ {mine} : policy'[n] = policy[n])
    BY <1>0, <1>m, <2>1, Zenon DEF TypeOK
  <2>3. TypeOK'
    <3>1. exists' \in [Names -> BOOLEAN] /\ policy' \in [Names -> SUBSET Paths]
      BY <1>0, <2>1, Zenon DEF TypeOK
    <3>2. \A n \in Names : exists[n] => exists'[n]
      BY <1>0, <1>m, <2>1, Zenon DEF TypeOK
    <3>3. QED
      BY <1>0, <2>1, <3>1, <3>2, Zenon DEF TypeOK, controllerVars
  <2>4. PrefixInv'
    BY <1>0, <2>1, Zenon DEF PrefixInv, Inspectable
  <2>5. PhaseInv' /\ RemovalInv' /\ PublishedIsRecorded' /\ ClaimedAlone'
    BY <1>0, <2>1, <2>2, Zenon DEF PhaseInv, RemovalInv, PublishedIsRecorded, ClaimedAlone, Loading, controllerVars
  <2>6. \A i \in Links : \A p \in held'[i] : \E n \in stale' : i \in links'[n] /\ p \in policy'[n]
    <3>1. \A i \in Links : \A p \in held[i] : \E n \in stale : i \in links[n] /\ p \in policy[n]
      BY <1>0, <2>1, Zenon DEF StaleInv, Loading
    <3>2. \A n \in stale : n \in Names \ {mine}
      BY <1>0, Zenon DEF TypeOK, Names
    <3>3. QED
      BY <2>1, <2>2, <3>1, <3>2, Zenon
  <2>7. StaleInv' /\ ProtectionHeld'
    BY <2>3, <2>6, Zenon DEF StaleInv, TypeOK, ProtectionHeld, Covered, Names
  <2>8. QED
    BY <2>3, <2>4, <2>5, <2>7, Zenon DEF IInv
<1>7. CASE PinMaps
  <2>1. /\ maps' = [maps EXCEPT ![mine] = TRUE] /\ pc = "pin"
        /\ UNCHANGED <<exists, links, policy, controllerVars, loaderVars, held, trouble>>
    BY <1>7, Zenon DEF PinMaps
  <2>2. \A n \in Names : maps[n] => maps'[n]
    BY <1>0, <2>1, Zenon DEF TypeOK
  <2>3. TypeOK'
    <3>1. maps' \in [Names -> BOOLEAN]
      BY <1>0, <2>1, Zenon DEF TypeOK
    <3>2. \A n \in Names : ~exists[n] => ~maps'[n] /\ links[n] = {}
      BY <1>0, <1>m, <2>1, Zenon DEF TypeOK, PhaseInv
    <3>3. QED
      BY <1>0, <2>1, <3>1, <3>2, Zenon DEF TypeOK, controllerVars, loaderVars
  <2>4. PrefixInv'
    BY <1>0, <2>1, <2>2, Zenon DEF PrefixInv, Inspectable
  <2>5. PhaseInv' /\ RemovalInv' /\ PublishedIsRecorded' /\ ClaimedAlone'
    BY <1>0, <2>1, Zenon DEF PhaseInv, RemovalInv, PublishedIsRecorded, ClaimedAlone, Loading, controllerVars, loaderVars
  <2>6. StaleInv'
    BY <1>0, <2>1, Zenon DEF StaleInv, Loading, loaderVars
  <2>7. ProtectionHeld'
    BY <1>0, <2>1, <2>3, <2>6, ZenonT(120) DEF StaleInv, Loading, TypeOK, ProtectionHeld, Covered, Names, loaderVars
  <2>8. QED
    BY <2>3, <2>4, <2>5, <2>6, <2>7, Zenon DEF IInv
<1>8. CASE PinLink
  <2>1. PICK i \in Links \ links[mine] :
           (\A j \in Links \ links[mine] : i <= j) /\ links' = [links EXCEPT ![mine] = @ \cup {i}]
    BY <1>8, Zenon DEF PinLink
  <2>2. /\ pc = "pin" /\ maps[mine]
        /\ UNCHANGED <<exists, maps, policy, controllerVars, loaderVars, held, trouble>>
    BY <1>8, Zenon DEF PinLink
  <2>3. links'[mine] = links[mine] \cup {i} /\ \A n \in Names \ {mine} : links'[n] = links[n]
    BY <1>0, <1>m, <2>1, Zenon DEF TypeOK
  <2>4. TypeOK'
    <3>1. links' \in [Names -> SUBSET Links]
      BY <1>0, <2>1, ZenonT(120) DEF TypeOK
    <3>2. \A n \in Names : ~exists[n] => ~maps[n] /\ links'[n] = {}
      BY <1>0, <2>2, <2>3, ZenonT(120) DEF TypeOK
    <3>3. QED
      BY <1>0, <2>2, <3>1, <3>2, Zenon DEF TypeOK, controllerVars, loaderVars
  <2>5. PrefixInv'
    <3>1. ASSUME NEW k \in links[mine] \cup {i} PROVE 1..k \subseteq links[mine] \cup {i}
      <4>1. CASE k \in links[mine]
        BY <1>0, <1>m, <4>1, Zenon DEF PrefixInv, Inspectable
      <4>2. CASE k = i
        <5>1. i \in 1..NLinks /\ NLinks \in Nat
          BY SizeAssumption, Zenon DEF Links
        <5>2. ASSUME NEW j \in 1..i PROVE j \in links[mine] \cup {i}
          BY <2>1, <5>1 DEF Links
        <5>3. QED
          BY <4>2, <5>2, Zenon
      <4>3. QED
        BY <4>1, <4>2, Zenon
    <3>2. Inspectable(mine)'
      BY <2>2, <2>3, <3>1, Zenon DEF Inspectable, loaderVars
    <3>3. \A n \in Names \ {mine} : Inspectable(n)'
      BY <1>0, <2>2, <2>3, Zenon DEF PrefixInv, Inspectable
    <3>4. QED
      BY <2>2, <3>2, <3>3, Zenon DEF PrefixInv, loaderVars
  <2>6. PhaseInv' /\ RemovalInv' /\ PublishedIsRecorded' /\ ClaimedAlone'
    BY <1>0, <2>2, Zenon DEF PhaseInv, RemovalInv, PublishedIsRecorded, ClaimedAlone, Loading, controllerVars, loaderVars
  <2>7. \A l \in Links : \A p \in held'[l] : \E n \in stale' : l \in links'[n] /\ p \in policy'[n]
    <3>1. \A l \in Links : \A p \in held[l] : \E n \in stale : l \in links[n] /\ p \in policy[n]
      BY <1>0, <2>2, Zenon DEF StaleInv, Loading
    <3>2. \A n \in stale : n \in Names \ {mine}
      BY <1>0, Zenon DEF TypeOK, Names
    <3>3. QED
      BY <2>2, <2>3, <3>1, <3>2, ZenonT(120) DEF loaderVars
  <2>8. StaleInv' /\ ProtectionHeld'
    BY <2>4, <2>7, Zenon DEF StaleInv, TypeOK, ProtectionHeld, Covered, Names
  <2>9. QED
    BY <2>4, <2>5, <2>6, <2>8, Zenon DEF IInv
<1>9. CASE Publish
  <2>1. /\ pc = "publish" /\ pc' = "replace" /\ recorded = mine /\ recorded' = "dir"
        /\ UNCHANGED <<claimed, mine, stale, want, held, trouble>>
    BY <1>0, <1>9, Zenon DEF Publish, PhaseInv
  <2>2. Whole(mine) /\ ~claimed
    BY <1>0, <2>1, Zenon DEF PhaseInv, Loading
  <2>3. /\ exists' = [exists EXCEPT !["dir"] = TRUE, ![mine] = FALSE]
        /\ maps' = [maps EXCEPT !["dir"] = maps[mine], ![mine] = FALSE]
        /\ links' = [links EXCEPT !["dir"] = links[mine], ![mine] = {}]
        /\ policy' = [policy EXCEPT !["dir"] = policy[mine]]
    BY <1>9, Zenon DEF Publish
  <2>4. /\ exists'["dir"] /\ maps'["dir"] /\ links'["dir"] = Links
        /\ ~exists'[mine] /\ ~maps'[mine] /\ links'[mine] = {}
        /\ \A n \in Names \ {mine, "dir"} : exists'[n] = exists[n] /\ maps'[n] = maps[n] /\ links'[n] = links[n]
    BY <1>0, <1>m, <2>2, <2>3, ZenonT(120) DEF TypeOK, Whole
  <2>5. TypeOK'
    <3>1. /\ exists' \in [Names -> BOOLEAN] /\ maps' \in [Names -> BOOLEAN]
          /\ links' \in [Names -> SUBSET Links] /\ policy' \in [Names -> SUBSET Paths]
      BY <1>0, <1>m, <2>3, Zenon DEF TypeOK
    <3>2. \A n \in Names : ~exists'[n] => ~maps'[n] /\ links'[n] = {}
      BY <1>0, <2>4, ZenonT(120) DEF TypeOK
    <3>3. QED
      BY <1>0, <1>m, <2>1, <3>1, <3>2, Zenon DEF TypeOK
  <2>6. Whole("dir")'
    BY <2>4, Zenon DEF Whole
  <2>7. PrefixInv'
    <3>1. \A n \in Names \ {mine, "dir"} : Inspectable(n)'
      BY <1>0, <2>4, ZenonT(120) DEF PrefixInv, Inspectable
    <3>2. Inspectable("dir")'
      BY <2>4, SizeAssumption DEF Inspectable, Links
    <3>3. ASSUME NEW n \in Names, n = mine PROVE Inspectable(n)'
      BY <2>4, <3>3, Zenon DEF Inspectable
    <3>4. QED
      BY <3>1, <3>2, <3>3, Zenon DEF PrefixInv
  <2>8. ProtectionHeld'
    BY <2>5, <2>6, Zenon DEF TypeOK, Whole, ProtectionHeld, Covered, Names, Staging
  <2>9. PhaseInv' /\ RemovalInv' /\ StaleInv' /\ PublishedIsRecorded' /\ ClaimedAlone'
    BY <2>1, <2>2, <2>6, Zenon DEF PhaseInv, RemovalInv, StaleInv, PublishedIsRecorded, ClaimedAlone, Loading, Whole
  <2>10. QED
    BY <2>5, <2>7, <2>8, <2>9, Zenon DEF IInv
<1>10. CASE RecordBirth
  <2>1. /\ TypeOK' /\ PrefixInv' /\ ProtectionHeld'
        /\ \A n \in Names : Whole(n)' = Whole(n)
        /\ exists' = exists /\ links' = links /\ policy' = policy
    BY <1>0, <1>m, <1>10, QuietStep, Zenon DEF RecordBirth, TypeOK, controllerVars
  <2>2. PhaseInv' /\ RemovalInv' /\ StaleInv' /\ PublishedIsRecorded' /\ ClaimedAlone'
    BY <1>0, <1>m, <1>10, <2>1, Zenon DEF RecordBirth, PhaseInv, RemovalInv, StaleInv, PublishedIsRecorded,
       ClaimedAlone, Loading, controllerVars
  <2>3. QED
    BY <2>1, <2>2, Zenon DEF IInv
<1>11. CASE LoadEnds
  <2>1. /\ TypeOK' /\ PrefixInv' /\ ProtectionHeld'
        /\ \A n \in Names : Whole(n)' = Whole(n)
        /\ exists' = exists /\ links' = links /\ policy' = policy
    BY <1>0, <1>m, <1>11, QuietStep, Zenon DEF LoadEnds, TypeOK, controllerVars
  <2>2. PhaseInv' /\ RemovalInv' /\ StaleInv' /\ PublishedIsRecorded' /\ ClaimedAlone'
    BY <1>0, <1>m, <1>11, <2>1, Zenon DEF LoadEnds, PhaseInv, RemovalInv, StaleInv, PublishedIsRecorded,
       ClaimedAlone, Loading, controllerVars
  <2>3. QED
    BY <2>1, <2>2 DEF IInv
<1>12. CASE UnwindEnds
  <2>1. /\ TypeOK' /\ PrefixInv' /\ ProtectionHeld'
        /\ \A n \in Names : Whole(n)' = Whole(n)
        /\ exists' = exists /\ links' = links /\ policy' = policy
    BY <1>0, <1>m, <1>12, QuietStep, Zenon DEF UnwindEnds, TypeOK, controllerVars
  <2>2. PhaseInv' /\ RemovalInv' /\ StaleInv' /\ PublishedIsRecorded' /\ ClaimedAlone'
    BY <1>0, <1>m, <1>12, <2>1, Zenon DEF UnwindEnds, PhaseInv, RemovalInv, StaleInv, PublishedIsRecorded,
       ClaimedAlone, Loading, controllerVars
  <2>3. QED
    BY <2>1, <2>2 DEF IInv
<1>13. CASE Adopt
  <2>1. /\ TypeOK' /\ PrefixInv' /\ ProtectionHeld'
        /\ \A n \in Names : Whole(n)' = Whole(n)
        /\ exists' = exists /\ links' = links /\ policy' = policy
    BY <1>0, <1>m, <1>13, QuietStep, Zenon DEF Adopt, TypeOK, controllerVars
  <2>2. ClaimedAlone'
    BY <1>0, <1>13, <2>1, Zenon DEF Adopt, TypeOK, Left, Names, ClaimedAlone
  <2>3. PhaseInv' /\ RemovalInv' /\ StaleInv' /\ PublishedIsRecorded'
    BY <1>0, <1>m, <1>13, <2>1, Zenon DEF Adopt, PhaseInv, RemovalInv, StaleInv, PublishedIsRecorded, Loading
  <2>4. QED
    BY <2>1, <2>2, <2>3, Zenon DEF IInv
<1>14. CASE ForgetBirth
  <2>1. /\ TypeOK' /\ PrefixInv' /\ ProtectionHeld'
        /\ \A n \in Names : Whole(n)' = Whole(n)
        /\ exists' = exists /\ links' = links /\ policy' = policy
    BY <1>0, <1>m, <1>14, QuietStep, Zenon DEF ForgetBirth, TypeOK, controllerVars
  <2>2. PhaseInv' /\ RemovalInv' /\ StaleInv' /\ PublishedIsRecorded' /\ ClaimedAlone'
    BY <1>0, <1>m, <1>14, <2>1, Zenon DEF ForgetBirth, PhaseInv, RemovalInv, StaleInv, PublishedIsRecorded,
       ClaimedAlone, Loading, controllerVars
  <2>3. QED
    BY <2>1, <2>2 DEF IInv
<1>15. CASE Discarded
  <2>1. /\ TypeOK' /\ PrefixInv' /\ ProtectionHeld'
        /\ \A n \in Names : Whole(n)' = Whole(n)
        /\ exists' = exists /\ links' = links /\ policy' = policy
    BY <1>0, <1>m, <1>15, QuietStep, Zenon DEF Discarded, TypeOK, controllerVars
  <2>2. PhaseInv' /\ RemovalInv' /\ StaleInv' /\ PublishedIsRecorded' /\ ClaimedAlone'
    BY <1>0, <1>m, <1>15, <2>1, ZenonT(120) DEF Discarded, PhaseInv, RemovalInv, StaleInv, PublishedIsRecorded,
       ClaimedAlone, Loading, controllerVars
  <2>3. QED
    BY <2>1, <2>2 DEF IInv
<1>16. CASE Fail
  <2>1. /\ TypeOK' /\ PrefixInv' /\ ProtectionHeld'
        /\ \A n \in Names : Whole(n)' = Whole(n)
        /\ exists' = exists /\ links' = links /\ policy' = policy
    BY <1>0, <1>m, <1>16, QuietStep DEF Fail, TypeOK, controllerVars
  <2>2. PhaseInv' /\ RemovalInv' /\ StaleInv' /\ PublishedIsRecorded' /\ ClaimedAlone'
    BY <1>0, <1>m, <1>16, <2>1, Zenon DEF Fail, PhaseInv, RemovalInv, StaleInv, PublishedIsRecorded, ClaimedAlone,
       Loading, controllerVars
  <2>3. QED
    BY <2>1, <2>2 DEF IInv
<1>17. CASE Kill
  <2>1. /\ TypeOK' /\ PrefixInv' /\ ProtectionHeld'
        /\ \A n \in Names : Whole(n)' = Whole(n)
        /\ exists' = exists /\ links' = links /\ policy' = policy
    BY <1>0, <1>m, <1>17, QuietStep DEF Kill, TypeOK, controllerVars
  <2>2. PhaseInv' /\ RemovalInv' /\ StaleInv' /\ PublishedIsRecorded' /\ ClaimedAlone'
    BY <1>0, <1>m, <1>17, <2>1, Zenon DEF Kill, PhaseInv, RemovalInv, StaleInv, PublishedIsRecorded, ClaimedAlone,
       Loading, controllerVars
  <2>3. QED
    BY <2>1, <2>2 DEF IInv
<1>18. CASE Claim
  <2>1. UNCHANGED pinVars /\ UNCHANGED <<controllerVars, mine, stale, want, trouble>>
    BY <1>18, Zenon DEF Claim
  <2>2. held' \in [Links -> SUBSET Paths] /\ \A i \in Links : held'[i] \subseteq Covered(i)
    BY <1>18, Zenon DEF Claim, Covered
  <2>3. TypeOK'
    BY <1>0, <1>18, <2>1, <2>2, ZenonT(120) DEF Claim, TypeOK, pinVars, controllerVars
  <2>4. PrefixInv' /\ ProtectionHeld' /\ \A n \in Names : Whole(n)' = Whole(n)
    BY <1>0, <2>1, <2>2, SamePins, Zenon DEF ProtectionHeld
  <2>5. PhaseInv' /\ RemovalInv' /\ StaleInv' /\ PublishedIsRecorded' /\ ClaimedAlone'
    BY <1>0, <1>m, <1>18, <2>1, <2>4 DEF Claim, PhaseInv, RemovalInv, StaleInv, PublishedIsRecorded, ClaimedAlone,
       Loading, Whole, pinVars, controllerVars
  <2>6. QED
    BY <2>3, <2>4, <2>5, Zenon DEF IInv
<1>19. CASE Discard
  <2>1. UNCHANGED pinVars /\ UNCHANGED <<controllerVars, mine, stale, want, trouble>>
    BY <1>19, Zenon DEF Discard
  <2>2. held' \in [Links -> SUBSET Paths] /\ \A i \in Links : held'[i] \subseteq Covered(i)
    BY <1>19, Zenon DEF Discard, Covered
  <2>3. TypeOK'
    BY <1>0, <1>19, <2>1, <2>2, ZenonT(120) DEF Discard, TypeOK, pinVars, controllerVars
  <2>4. PrefixInv' /\ ProtectionHeld' /\ \A n \in Names : Whole(n)' = Whole(n)
    BY <1>0, <2>1, <2>2, SamePins DEF ProtectionHeld
  <2>5. PhaseInv' /\ RemovalInv' /\ StaleInv' /\ PublishedIsRecorded' /\ ClaimedAlone'
    BY <1>0, <1>m, <1>19, <2>1, <2>4 DEF Discard, PhaseInv, RemovalInv, StaleInv, PublishedIsRecorded, ClaimedAlone,
       Loading, Whole, pinVars, controllerVars
  <2>6. QED
    BY <2>3, <2>4, <2>5 DEF IInv
<1>20. CASE RemovePins
  <2>1. /\ pc = "remove" /\ claimed /\ RemoveNext("dir")
        /\ UNCHANGED <<controllerVars, loaderVars, held, trouble>>
    BY <1>0, <1>20, Zenon DEF RemovePins, PhaseInv
  <2>2. /\ exists' \in [Names -> BOOLEAN] /\ maps' \in [Names -> BOOLEAN]
        /\ links' \in [Names -> SUBSET Links] /\ policy' = policy
        /\ \A m \in Names \ {"dir"} : exists'[m] = exists[m] /\ links'[m] = links[m]
        /\ \A m \in Names : ~exists'[m] => ~maps'[m] /\ links'[m] = {}
        /\ PrefixInv'
    BY <1>0, <1>m, <2>1, RemoveNextFacts, ZenonT(120)
  <2>3. TypeOK'
    BY <1>0, <2>1, <2>2, Zenon DEF TypeOK, controllerVars, loaderVars
  <2>4. \A i \in Links : held'[i] = {}
    BY <1>0, <2>1, Zenon DEF RemovalInv
  <2>5. ProtectionHeld' /\ RemovalInv'
    BY <2>4, Zenon DEF ProtectionHeld, RemovalInv
  <2>6. \A n \in Staging : n \in Names \ {"dir"}
    BY Zenon DEF Names, Staging
  <2>7. PhaseInv' /\ StaleInv' /\ PublishedIsRecorded' /\ ClaimedAlone'
    BY <1>0, <2>1, <2>2, <2>6, Zenon DEF PhaseInv, StaleInv, PublishedIsRecorded, ClaimedAlone, Loading,
       controllerVars, loaderVars
  <2>8. QED
    BY <2>2, <2>3, <2>5, <2>7, Zenon DEF IInv
<1>21. CASE UNCHANGED vars
  <2>1. /\ TypeOK' /\ PrefixInv' /\ ProtectionHeld'
        /\ \A n \in Names : Whole(n)' = Whole(n)
    BY <1>0, <1>21, QuietStep, ZenonT(120) DEF vars, pinVars, TypeOK
  <2>2. PhaseInv' /\ RemovalInv' /\ StaleInv' /\ PublishedIsRecorded' /\ ClaimedAlone'
    BY <1>0, <1>m, <1>21, <2>1, ZenonT(120) DEF vars, PhaseInv, RemovalInv, StaleInv, PublishedIsRecorded,
       ClaimedAlone, Loading
  <2>3. QED
    BY <2>1, <2>2, Zenon DEF IInv
<1>22. QED
  BY <1>1, <1>2, <1>3, <1>4, <1>5, <1>6, <1>7, <1>8, <1>9, <1>10, <1>11, <1>12, <1>13, <1>14, <1>15, <1>16, <1>17,
     <1>18, <1>19, <1>20, <1>21, Zenon DEF Next, Step

\* The invariant holds throughout every sequence of loads, claims and removals.
LEMMA Invariance == Spec => []IInv
  BY InitIInv, NextIInv, PTL DEF Spec

\* The loader's directories and locals keep their types, for any link set and any policies.
THEOREM TypeCorrect == Spec => []TypeOK
<1>1. IInv => TypeOK
  BY Zenon DEF IInv
<1>2. QED
  BY <1>1, Invariance, PTL

\* Whatever a hook enforced when a load or a settle began stays enforced through every death and
\* failure, until a complete generation without that executable is published.
THEOREM ProtectionNeverLapses == Spec => []ProtectionHeld
<1>1. IInv => ProtectionHeld
  BY Zenon DEF IInv
<1>2. QED
  BY <1>1, Invariance, PTL

\* No interruption leaves a staging directory that the next load or settle refuses, and a guard
\* whose load died after the rename is complete and recorded, so that _claim_birth adopts it.
THEOREM AlwaysClaimable == Spec => []Claimable
<1>1. IInv => Recognisable
  BY Zenon DEF IInv, PrefixInv, Recognisable, Names
<1>2. IInv => PublishedIsRecorded
  BY Zenon DEF IInv
<1>3. QED
  BY <1>1, <1>2, Invariance, PTL DEF Claimable

\* No interrupted generation is attached beside a guard that the journal owns.
THEOREM AdoptedAlone == Spec => []ClaimedAlone
<1>1. IInv => ClaimedAlone
  BY Zenon DEF IInv
<1>2. QED
  BY <1>1, Invariance, PTL
=============================================================================
