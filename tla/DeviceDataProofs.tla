-------------------------- MODULE DeviceDataProofs --------------------------
(***************************************************************************)
(* Proofs about what the user types and the device keeps.  A line that is  *)
(* saved in a plain file is the line that is loaded; the settings and the  *)
(* address book implement what they promise; no contact is ever loaded     *)
(* that was not added; the text field keeps every letter, and the import   *)
(* takes every word that is typed out; an amount that is shown for         *)
(* confirmation is a number, and it is the one that is sent; and what is   *)
(* taken of a signer's answer is the answer to the request, or an error,   *)
(* whatever byte the line changes and wherever it cuts a frame.  A phrase  *)
(* is accepted exactly when it is the phrase of some entropy.              *)
(***************************************************************************)
EXTENDS AddressBook, SettingsEditors, ImportRecovery, SendAmount, SignerFrames, Mnemonic,
        TLAPS, SequenceTheorems, FiniteSetTheorems, WellFoundedInduction

-----------------------------------------------------------------------------
(* The plain store.                                                         *)

Smaller == {p \in Nat \X Nat : p[1] < p[2]}

\* A set of line numbers has a first one.
LEMMA LeastOfSet == ASSUME NEW S \in SUBSET Nat, S # {} PROVE \E n \in S : \A k \in S : n <= k
<1>1. OpToRel(<, Nat) = Smaller
  BY Zenon DEF OpToRel, Smaller
<1>2. IsWellFoundedOn(Smaller, Nat)
  BY <1>1, NatLessThanWellFounded, Zenon
<1>3. PICK n \in S : \A k \in S : <<k, n>> \notin Smaller
  BY <1>2, WFMin
<1>4. ASSUME NEW k \in S PROVE n <= k
  <2>1. <<k, n>> \in Nat \X Nat /\ <<k, n>> \notin Smaller
    BY <1>3
  <2>2. ~(k < n)
    BY <2>1 DEF Smaller
  <2> QED BY <2>2
<1> QED BY <1>4

\* Induction over the numbers, on the set of those of which something holds.
LEMMA Induction ==
    ASSUME NEW S \in SUBSET Nat, 0 \in S, \A n \in S : n + 1 \in S
    PROVE  \A n \in Nat : n \in S
<1> SUFFICES ASSUME Nat \ S # {}
             PROVE  FALSE
  OBVIOUS
<1>1. Nat \ S \in SUBSET Nat
  OBVIOUS
<1>2. PICK n \in Nat \ S : \A k \in Nat \ S : n <= k
  BY <1>1, LeastOfSet
<1>3. n # 0 /\ n - 1 \in Nat
  BY <1>2
<1>4. n - 1 \notin Nat \ S
  BY <1>2, <1>3
<1>5. n - 1 + 1 = n
  BY <1>2
<1> QED BY <1>2, <1>3, <1>4, <1>5

\* Induction over 0 .. N.
LEMMA BoundedInduction ==
    ASSUME NEW N \in Nat, NEW S, 0 \in S, \A n \in 0 .. N : n # N /\ n \in S => n + 1 \in S
    PROVE  \A n \in 0 .. N : n \in S
<1> DEFINE T == {n \in Nat : n \in S \/ n > N}
<1>1. T \in SUBSET Nat /\ 0 \in T
  OBVIOUS
<1>2. ASSUME NEW n \in T PROVE n + 1 \in T
  OBVIOUS
<1>3. \A n \in Nat : n \in T
  <2> HIDE DEF T
  <2> QED BY <1>1, <1>2, Induction
<1> QED BY <1>3

\* f starts with first, and each of its values follows from the one before.
Recurs(f, N, V, first, step) ==
    /\ f \in [0 .. N -> V] /\ f[0] = first
    /\ \A n \in 1 .. N : f[n] = step[<<n, f[n - 1]>>]

\* There is such a function for any first value and any step.
LEMMA Recursion ==
    ASSUME NEW N \in Nat, NEW V, NEW first \in V, NEW step \in [(1 .. N) \X V -> V]
    PROVE  \E f : Recurs(f, N, V, first, step)
<1> DEFINE Up(k, f) == /\ f \in [0 .. k -> V] /\ f[0] = first
                       /\ \A n \in 1 .. k : f[n] = step[<<n, f[n - 1]>>]
           S == {k \in 0 .. N : \E f \in [0 .. k -> V] : Up(k, f)}
<1>1. 0 \in S
  <2>1. Up(0, [n \in 0 .. 0 |-> first])
    OBVIOUS
  <2>2. [n \in 0 .. 0 |-> first] \in [0 .. 0 -> V] /\ 0 \in 0 .. N
    OBVIOUS
  <2> HIDE DEF Up
  <2> QED BY <2>1, <2>2
<1>2. ASSUME NEW k \in 0 .. N, k # N, k \in S PROVE k + 1 \in S
  <2>1. PICK f \in [0 .. k -> V] : Up(k, f)
    BY <1>2
  <2> DEFINE g == [n \in 0 .. k + 1 |-> IF n <= k THEN f[n] ELSE step[<<k + 1, f[k]>>]]
  <2>2. k \in Nat /\ k + 1 \in 1 .. N /\ f[k] \in V
    BY <1>2
  <2>3. step[<<k + 1, f[k]>>] \in V
    BY <2>2
  <2>4. g \in [0 .. k + 1 -> V] /\ g[0] = first
    BY <2>1, <2>2, <2>3
  <2>5. ASSUME NEW n \in 1 .. k + 1 PROVE g[n] = step[<<n, g[n - 1]>>]
    <3>1. CASE n <= k
      <4>1. n \in 1 .. k /\ n - 1 <= k /\ n - 1 \in 0 .. k + 1 /\ n \in 0 .. k + 1
        BY <2>2, <3>1
      <4>2. g[n] = f[n] /\ g[n - 1] = f[n - 1]
        BY <3>1, <4>1
      <4> QED BY <2>1, <4>1, <4>2
    <3>2. CASE n = k + 1
      <4>1. k <= k /\ ~(k + 1 <= k) /\ k \in 0 .. k + 1 /\ k + 1 \in 0 .. k + 1 /\ n - 1 = k
        BY <2>2, <3>2
      <4>2. g[n] = step[<<k + 1, f[k]>>] /\ g[n - 1] = f[k]
        BY <3>2, <4>1
      <4> QED BY <3>2, <4>2
    <3> QED BY <2>2, <3>1, <3>2
  <2>6. Up(k + 1, g)
    BY <2>4, <2>5
  <2>7. k + 1 \in 0 .. N
    BY <2>2
  <2> HIDE DEF Up, g
  <2> QED BY <2>4, <2>6, <2>7
<1>3. N \in 0 .. N /\ \A n \in 0 .. N : n \in S
  <2> HIDE DEF S
  <2> QED BY <1>1, <1>2, BoundedInduction
<1> QED BY <1>3 DEF Recurs

\* The same without an end.
RecursOn(f, V, first, step) ==
    /\ f \in [Nat -> V] /\ f[0] = first
    /\ \A n \in Nat : f[n + 1] = step[<<n + 1, f[n]>>]

\* There is such a function, too.
LEMMA EndlessRecursion ==
    ASSUME NEW V, NEW first \in V, NEW step \in [Nat \X V -> V]
    PROVE  \E f : RecursOn(f, V, first, step)
<1> DEFINE Part(N) == [a \in (1 .. N) \X V |-> step[a]]
           Up(N, f) == Recurs(f, N, V, first, Part(N))
<1>1. ASSUME NEW N \in Nat PROVE \E f : Up(N, f)
  <2>1. Part(N) \in [(1 .. N) \X V -> V]
    OBVIOUS
  <2> HIDE DEF Part
  <2> QED BY <2>1, Recursion
<1>2. ASSUME NEW N \in Nat, NEW f, Up(N, f)
      PROVE  /\ f \in [0 .. N -> V] /\ f[0] = first
             /\ \A n \in 1 .. N : f[n] = step[<<n, f[n - 1]>>]
  <2>1. \A n \in 1 .. N : n - 1 \in 0 .. N
    OBVIOUS
  <2>2. f \in [0 .. N -> V] /\ f[0] = first /\ \A n \in 1 .. N : f[n] = Part(N)[<<n, f[n - 1]>>]
    BY <1>2 DEF Recurs
  <2> QED BY <2>1, <2>2
<1>3. ASSUME NEW N \in Nat, NEW f, NEW g, Up(N, f), Up(N + 1, g)
      PROVE  f[N] = g[N]
  <2> DEFINE S == {n \in 0 .. N : f[n] = g[n]}
  <2>1. /\ N + 1 \in Nat /\ f[0] = first /\ g[0] = first
        /\ \A n \in 1 .. N : f[n] = step[<<n, f[n - 1]>>]
        /\ \A n \in 1 .. N + 1 : g[n] = step[<<n, g[n - 1]>>]
    <3> HIDE DEF Up
    <3> QED BY <1>2, <1>3
  <2>2. 0 \in S
    BY <2>1
  <2>3. ASSUME NEW n \in 0 .. N, n # N, n \in S PROVE n + 1 \in S
    <3>1. n + 1 \in 1 .. N /\ n + 1 \in 1 .. N + 1 /\ n + 1 - 1 = n
      BY <2>3
    <3>2. f[n + 1] = step[<<n + 1, f[n]>>] /\ g[n + 1] = step[<<n + 1, g[n]>>]
      BY <2>1, <3>1
    <3>3. f[n] = g[n] /\ n + 1 \in 0 .. N
      BY <2>3
    <3> QED BY <3>2, <3>3
  <2>4. \A n \in 0 .. N : n \in S
    <3> HIDE DEF S
    <3> QED BY <2>2, <2>3, BoundedInduction
  <2> QED BY <2>4
<1> DEFINE F(N) == CHOOSE f : Up(N, f)
           g == [n \in Nat |-> F(n)[n]]
<1>4. ASSUME NEW N \in Nat PROVE Up(N, F(N))
  <2> HIDE DEF Up
  <2> QED BY <1>1
<1> HIDE DEF F, Up
<1>5. g \in [Nat -> V] /\ g[0] = first
  <2>1. ASSUME NEW n \in Nat PROVE F(n)[n] \in V
    BY <1>2, <1>4
  <2>2. F(0)[0] = first
    BY <1>2, <1>4
  <2> QED BY <2>1, <2>2
<1>6. ASSUME NEW n \in Nat PROVE g[n + 1] = step[<<n + 1, g[n]>>]
  <2>1. n + 1 \in Nat /\ Up(n, F(n)) /\ Up(n + 1, F(n + 1))
    BY <1>4
  <2>2. F(n)[n] = F(n + 1)[n]
    BY <1>3, <2>1
  <2>3. n + 1 \in 1 .. n + 1 /\ n + 1 - 1 = n
    OBVIOUS
  <2>4. F(n + 1)[n + 1] = step[<<n + 1, F(n + 1)[n]>>]
    BY <1>2, <2>1, <2>3
  <2> QED BY <2>1, <2>2, <2>4
<1> HIDE DEF g
<1> QED BY <1>5, <1>6 DEF RecursOn

\* tezos_store_load_plain reads the first line of a key.
FirstLine(lines, key, n) ==
    /\ n \in 0 .. Len(lines)
    /\ n = 0 => \A i \in 1 .. Len(lines) : lines[i][1] # key
    /\ n # 0 => lines[n][1] = key /\ \A i \in 1 .. n - 1 : lines[i][1] # key

\* LineOf finds the first line of a key, or none where there is none.
LEMMA LineOfIsFirst ==
    ASSUME NEW lines, Len(lines) \in Nat, NEW key
    PROVE  FirstLine(lines, key, LineOf(lines, key))
<1> DEFINE I == {i \in 1 .. Len(lines) : lines[i][1] = key}
<1>1. LineOf(lines, key) = IF I # {} THEN Min(I) ELSE 0
  BY DEF LineOf, SelectInSeq
<1>2. CASE I = {}
  BY <1>1, <1>2 DEF FirstLine
<1>3. CASE I # {}
  <2>1. I \in SUBSET Nat
    OBVIOUS
  <2>2. Min(I) \in I /\ \A k \in I : Min(I) <= k
    <3> HIDE DEF I
    <3>1. \E n \in I : \A k \in I : n <= k
      BY <1>3, <2>1, LeastOfSet
    <3> QED BY <3>1 DEF Min
  <2>3. Min(I) \in 1 .. Len(lines) /\ lines[Min(I)][1] = key
    BY <2>2
  <2>4. ASSUME NEW i \in 1 .. Min(I) - 1
        PROVE  lines[i][1] # key
    <3>1. i \in 1 .. Len(lines) /\ ~(Min(I) <= i)
      BY <2>3
    <3> QED BY <2>2, <3>1
  <2> HIDE DEF I
  <2> QED BY <1>1, <1>3, <2>3, <2>4 DEF FirstLine
<1> QED BY <1>2, <1>3

\* There is one such line at most.
LEMMA FirstLineUnique ==
    ASSUME NEW lines, Len(lines) \in Nat, NEW key, NEW m, NEW n,
           FirstLine(lines, key, m), FirstLine(lines, key, n)
    PROVE  m = n
<1>1. m \in 0 .. Len(lines) /\ n \in 0 .. Len(lines)
  BY DEF FirstLine
<1>2. ~(m < n)
  <2> SUFFICES ASSUME m < n PROVE FALSE
    OBVIOUS
  <2>1. n # 0 /\ (m = 0 \/ m \in 1 .. n - 1)
    BY <1>1
  <2>2. n \in 1 .. Len(lines)
    BY <1>1, <2>1
  <2> QED BY <2>1, <2>2 DEF FirstLine
<1>3. ~(n < m)
  <2> SUFFICES ASSUME n < m PROVE FALSE
    OBVIOUS
  <2>1. m # 0 /\ (n = 0 \/ n \in 1 .. m - 1)
    BY <1>1
  <2>2. m \in 1 .. Len(lines)
    BY <1>1, <2>1
  <2> QED BY <2>1, <2>2 DEF FirstLine
<1> QED BY <1>1, <1>2, <1>3

\* A line that is saved is the line that is loaded, and the lines of the other
\* keys are loaded as before.
LEMMA SavedIsLoaded ==
    ASSUME NEW S, NEW lines \in Seq(S), NEW key, NEW value, <<key, value>> \in S
    PROVE  /\ Save(lines, key, value) \in Seq(S)
           /\ Load(Save(lines, key, value), key) = value
           /\ \A k : k # key => Load(Save(lines, key, value), k) = Load(lines, k)
<1> DEFINE at == LineOf(lines, key)
           new == Save(lines, key, value)
           line == <<key, value>>
<1>0. Len(lines) \in Nat /\ line[1] = key /\ line[2] = value
  OBVIOUS
<1>1. FirstLine(lines, key, at)
  BY <1>0, LineOfIsFirst
<1> HIDE DEF line
<1>2. CASE at = 0
  <2>1. new = Append(lines, line)
    BY <1>2 DEF Save, line
  <2>2. /\ new \in Seq(S) /\ Len(new) = Len(lines) + 1
        /\ \A i \in 1 .. Len(lines) : new[i] = lines[i]
        /\ new[Len(lines) + 1] = line
    BY <2>1, AppendProperties DEF line
  <2> HIDE DEF new
  <2>3. FirstLine(new, key, Len(new))
    BY <1>0, <1>1, <1>2, <2>2 DEF FirstLine
  <2>4. LineOf(new, key) = Len(new)
    BY <1>0, <2>2, <2>3, LineOfIsFirst, FirstLineUnique
  <2>5. Load(new, key) = value
    BY <1>0, <2>2, <2>4 DEF Load
  <2>6. ASSUME NEW k, k # key
        PROVE  Load(new, k) = Load(lines, k)
    <3>1. FirstLine(lines, k, LineOf(lines, k))
      BY <1>0, LineOfIsFirst
    <3>2. FirstLine(new, k, LineOf(lines, k))
      <4>1. \A i \in 1 .. Len(new) : i \in 1 .. Len(lines) \/ i = Len(lines) + 1
        BY <1>0, <2>2
      <4>2. \A i \in 1 .. Len(lines) : new[i] = lines[i]
        BY <2>2
      <4>3. LineOf(lines, k) # 0 => LineOf(lines, k) \in 1 .. Len(lines)
        BY <1>0, <3>1 DEF FirstLine
      <4>4. LineOf(lines, k) \in 0 .. Len(new)
        BY <1>0, <2>2, <3>1 DEF FirstLine
      <4>5. LineOf(lines, k) = 0 => \A i \in 1 .. Len(new) : new[i][1] # k
        BY <1>0, <2>2, <2>6, <3>1, <4>1 DEF FirstLine
      <4>6. LineOf(lines, k) # 0 =>
              new[LineOf(lines, k)][1] = k
                /\ \A i \in 1 .. LineOf(lines, k) - 1 : new[i][1] # k
        <5> SUFFICES ASSUME LineOf(lines, k) # 0
                     PROVE  new[LineOf(lines, k)][1] = k
                              /\ \A i \in 1 .. LineOf(lines, k) - 1 : new[i][1] # k
          OBVIOUS
        <5>1. \A i \in 1 .. LineOf(lines, k) - 1 : i \in 1 .. Len(lines)
          BY <1>0, <4>3
        <5> QED BY <3>1, <4>2, <4>3, <5>1 DEF FirstLine
      <4> QED BY <4>4, <4>5, <4>6 DEF FirstLine
    <3>3. LineOf(new, k) = LineOf(lines, k)
      BY <1>0, <2>2, <3>2, LineOfIsFirst, FirstLineUnique
    <3>4. LineOf(lines, k) # 0 => LineOf(lines, k) \in 1 .. Len(lines)
      BY <1>0, <3>1 DEF FirstLine
    <3> QED BY <2>2, <3>3, <3>4 DEF Load
  <2> QED BY <2>2, <2>5, <2>6 DEF new
<1>3. CASE at # 0
  <2>1. new = [lines EXCEPT ![at] = line]
    BY <1>3 DEF Save, line
  <2>2. at \in 1 .. Len(lines) /\ lines[at][1] = key
    BY <1>0, <1>1, <1>3 DEF FirstLine
  <2>3. /\ new \in Seq(S) /\ Len(new) = Len(lines)
        /\ \A i \in 1 .. Len(lines) : new[i] = IF i = at THEN line ELSE lines[i]
    <3> HIDE DEF at, new
    <3> QED BY <2>1, <2>2, ExceptSeq DEF line
  <2> HIDE DEF new
  <2>4. \A i \in 1 .. Len(lines) : new[i][1] = lines[i][1]
    BY <1>0, <2>2, <2>3
  <2>5. ASSUME NEW k
        PROVE  LineOf(new, k) = LineOf(lines, k)
    <3>1. FirstLine(lines, k, LineOf(lines, k))
      BY <1>0, LineOfIsFirst
    <3>2. FirstLine(new, k, LineOf(lines, k))
      <4>1. LineOf(lines, k) # 0 => LineOf(lines, k) \in 1 .. Len(lines)
        BY <1>0, <3>1 DEF FirstLine
      <4>2. LineOf(lines, k) # 0 =>
              \A i \in 1 .. LineOf(lines, k) - 1 : i \in 1 .. Len(lines)
        BY <1>0, <4>1
      <4> QED BY <2>3, <2>4, <3>1, <4>1, <4>2 DEF FirstLine
    <3> QED BY <1>0, <2>3, <3>2, LineOfIsFirst, FirstLineUnique
  <2>6. Load(new, key) = value
    BY <1>0, <1>3, <2>2, <2>3, <2>5 DEF Load
  <2>7. ASSUME NEW k, k # key
        PROVE  Load(new, k) = Load(lines, k)
    <3>1. LineOf(lines, k) # 0 =>
            LineOf(lines, k) \in 1 .. Len(lines) /\ LineOf(lines, k) # at
      BY <1>0, <2>2, <2>7, LineOfIsFirst DEF FirstLine
    <3> QED BY <2>3, <2>5, <3>1 DEF Load
  <2> QED BY <2>3, <2>6, <2>7 DEF new
<1> QED BY <1>2, <1>3

-----------------------------------------------------------------------------
(* The settings.                                                            *)

\* What an editor may save.
Offered(k) == IF k = "network" THEN Networks ELSE SettingTexts

SettingLines == SettingKeys \X (SettingTexts \cup Networks)

\* While no save fails, the values in use are those of the file, each of the
\* kind of its key, and so is the one in the editor.
SettingsInv ==
    steady =>
        /\ settingsFile \in Seq(SettingLines)
        /\ \A k \in SettingKeys :
              Load(settingsFile, k) = ABSENT \/ Load(settingsFile, k) \in Offered(k)
        /\ loaded = TRUE => live = Loaded(settingsFile)
        /\ editing # ABSENT =>
              loaded = TRUE /\ editing \in SettingKeys /\ editText \in Offered(editing)

\* What is loaded has the kind of its key.
LEMMA LoadedIsOffered ==
    ASSUME SettingsInv, steady, NEW k \in SettingKeys
    PROVE  Loaded(settingsFile)[k] \in Offered(k)
<1>1. Default[k] \in Offered(k)
  BY SettingsAssumption DEF Default, Offered, SettingKeys
<1>2. 0 \in Networks
  BY SettingsAssumption
<1> QED BY <1>1, <1>2 DEF Loaded, SettingsInv, Offered

\* SAVE writes what it takes into use, and nothing else.
LEMMA SavedIsInUse ==
    ASSUME SettingsInv, steady, NEW k \in SettingKeys, NEW v \in Offered(k)
    PROVE  /\ Save(settingsFile, k, v) \in Seq(SettingLines)
           /\ \A j \in SettingKeys :
                 \/ Load(Save(settingsFile, k, v), j) = ABSENT
                 \/ Load(Save(settingsFile, k, v), j) \in Offered(j)
           /\ Loaded(Save(settingsFile, k, v)) = [Loaded(settingsFile) EXCEPT ![k] = v]
<1> DEFINE new == Save(settingsFile, k, v)
<1>1. <<k, v>> \in SettingLines
  BY DEF SettingLines, Offered
<1>2. /\ new \in Seq(SettingLines) /\ Load(new, k) = v
      /\ \A j : j # k => Load(new, j) = Load(settingsFile, j)
  BY <1>1, SavedIsLoaded DEF SettingsInv
<1>3. v # ABSENT /\ (k = "network" => v \in Networks)
  BY SettingsAssumption DEF Offered
<1> HIDE DEF new
<1>4. \A j \in SettingKeys : Load(new, j) = ABSENT \/ Load(new, j) \in Offered(j)
  BY <1>2 DEF SettingsInv
<1>5. ASSUME NEW j \in SettingKeys
      PROVE  Loaded(new)[j] = IF j = k THEN v ELSE Loaded(settingsFile)[j]
  <2>1. CASE j = k
    BY <1>2, <1>3, <2>1 DEF Loaded
  <2>2. CASE j # k
    BY <1>2, <2>2 DEF Loaded
  <2> QED BY <2>1, <2>2
<1>6. Loaded(new) = [Loaded(settingsFile) EXCEPT ![k] = v]
  <2>1. /\ DOMAIN Loaded(new) = SettingKeys /\ DOMAIN Loaded(settingsFile) = SettingKeys
        /\ Loaded(new) = [j \in SettingKeys |-> Loaded(new)[j]]
        /\ Loaded(settingsFile) = [j \in SettingKeys |-> Loaded(settingsFile)[j]]
    BY DEF Loaded
  <2> QED BY <1>5, <2>1
<1> QED BY <1>2, <1>4, <1>6 DEF new

\* A step of the editors is a step of the promise, and keeps the file current.
LEMMA SettingsStep ==
    ASSUME SettingsInv, [SettingsNext /\ UNCHANGED steady]_<<settingsVars, steady>>
    PROVE  SettingsInv' /\ [steady => Promised!Next]_InUse
<1> USE DEF SettingsInv
<1>1. steady' = steady
  OBVIOUS
<1>2. CASE ~steady
  BY <1>1, <1>2
<1> SUFFICES ASSUME steady
             PROVE  SettingsInv' /\ [Promised!Next]_InUse
  BY <1>2
<1>3. CASE UNCHANGED settingsVars
  BY <1>1, <1>3 DEF settingsVars, InUse
<1>4. CASE LoadSettings
  BY <1>1, <1>4 DEF LoadSettings, InUse
<1>5. CASE CancelEdit
  BY <1>1, <1>5 DEF CancelEdit, InUse
<1>6. CASE Restart
  <2>1. UNCHANGED settingsFile
    BY <1>6 DEF Restart
  <2> QED BY <1>1, <1>6, <2>1 DEF Restart, InUse
<1>7. ASSUME NEW key \in SettingKeys, OpenEditor(key)
      PROVE  SettingsInv' /\ [Promised!Next]_InUse
  <2>1. live[key] \in Offered(key)
    BY <1>7, LoadedIsOffered DEF OpenEditor
  <2> QED BY <1>1, <1>7, <2>1 DEF OpenEditor, InUse
<1>8. ASSUME NEW text, Edit(text)
      PROVE  SettingsInv' /\ [Promised!Next]_InUse
  BY <1>1, <1>8 DEF Edit, InUse, Offered
<1>9. ASSUME NEW written \in BOOLEAN, SaveEdit(written)
      PROVE  SettingsInv' /\ [Promised!Next]_InUse
  <2>1. /\ loaded = TRUE /\ loaded' = TRUE /\ editing' = ABSENT /\ written
        /\ editing \in SettingKeys /\ editText \in Offered(editing)
        /\ live = Loaded(settingsFile)
    BY <1>9 DEF SaveEdit
  <2>2. CASE Saves
    <3>1. /\ live' = [live EXCEPT ![editing] = editText]
          /\ settingsFile' = Save(settingsFile, editing, editText)
      BY <1>9, <2>1, <2>2 DEF SaveEdit
    <3>2. SettingsInv'
      BY <1>1, <2>1, <3>1, SavedIsInUse
    <3>3. InUse' = [InUse EXCEPT ![editing] = editText]
      BY <2>1, <3>1 DEF InUse
    <3>4. editText \in SettingTexts \cup Networks
      BY <2>1 DEF Offered
    <3> QED BY <2>1, <3>2, <3>3, <3>4 DEF Promised!Next, Promised!Set
  <2>3. CASE ~Saves
    BY <1>1, <1>9, <2>1, <2>3 DEF SaveEdit, InUse
  <2> QED BY <2>2, <2>3
<1> QED BY <1>3, <1>4, <1>5, <1>6, <1>7, <1>8, <1>9 DEF SettingsNext

\* Settings implement what they promise: every value in use, and every value
\* the next program will use, is the one saved last, unless a save fails.
THEOREM SettingsKeepTheirPromise == SettingsSpec => IsSettings
<1>1. SettingsInit => SettingsInv /\ Promised!Init
  <2> SUFFICES ASSUME SettingsInit PROVE SettingsInv /\ Promised!Init
    OBVIOUS
  <2>1. settingsFile = <<>> /\ Len(settingsFile) = 0
    BY DEF SettingsInit
  <2>2. \A k : Load(settingsFile, k) = ABSENT
    <3> TAKE k
    <3>1. LineOf(settingsFile, k) = 0
      BY <2>1, LineOfIsFirst DEF FirstLine
    <3> QED BY <3>1 DEF Load
  <2>3. Loaded(settingsFile) = Default
    BY <2>2 DEF Loaded, Default
  <2>4. settingsFile \in Seq(SettingLines)
    BY <2>1, EmptySeq
  <2>5. loaded = FALSE /\ editing = ABSENT
    BY DEF SettingsInit
  <2>6. InUse = Default
    BY <2>3, <2>5 DEF InUse
  <2> QED BY <2>2, <2>4, <2>5, <2>6 DEF SettingsInv, Promised!Init
<1>2. SettingsInv /\ [SettingsNext /\ UNCHANGED steady]_<<settingsVars, steady>>
        => SettingsInv' /\ [steady => Promised!Next]_InUse
  BY SettingsStep
<1> QED BY <1>1, <1>2, PTL DEF SettingsSpec, IsSettings, Promised!Spec
-----------------------------------------------------------------------------
(* The address book.                                                        *)

Entry == [name : Strings, address : Strings]

BookLine == BookKeys \X (Strings \cup 0 .. MaxContacts)

\* The lines stand in the order of their keys, none left out.
Ordered(lines) ==
    /\ lines \in Seq(BookLine)
    /\ \A n \in 1 .. Len(lines) :
          /\ lines[n][1] = n - 1
          /\ lines[n][2] \in (IF n = 1 THEN 0 .. MaxContacts ELSE Strings)

\* Every contact that is complete was added.
Genuine(entry) == entry.name \in Names /\ entry.address \in Addresses => entry \in added

\* No name stands for an address, and no address for a name.
Straight(entry) == entry.name \notin Addresses /\ entry.address \notin Names

\* The book and its file have their types; a save runs over the file in order.
BookType ==
    /\ Ordered(file) /\ entries \in [1 .. MaxContacts -> Entry]
    /\ count \in -1 .. MaxContacts /\ saving \in BookKeys \cup {ABSENT}
    /\ saving # ABSENT => count # -1 /\ saving <= 2 * count /\ saving <= Len(file)

\* What the program has and what it would load are contacts that were added.
BookGenuine ==
    /\ \A i \in 1 .. MaxContacts : Genuine(entries[i])
    /\ count = -1 => \A i \in 1 .. CountIn(file) : Genuine(Contents(file)[i])

BookStraight ==
    /\ \A i \in 1 .. MaxContacts : Straight(entries[i])
    /\ count = -1 => \A i \in 1 .. CountIn(file) : Straight(Contents(file)[i])

\* While nothing is deleted the file only grows: at any time its lines are
\* those that a whole save would write.
Growing ==
    /\ Len(file) <= 2 * CountIn(file) + 1
    /\ count # -1 =>
          /\ Len(file) <= 2 * count + 1
          /\ \A n \in 2 .. Len(file) : file[n][2] = ValueOf(n - 1)
          /\ saving \notin {ABSENT, 0} => CountIn(file) = count

\* While no save is cut off, the lines the save has passed, and all lines of the
\* contacts between two saves, are those of the book.
Current ==
    /\ count = -1 => Len(file) = 0 \/ Len(file) > 2 * CountIn(file)
    /\ count # -1 /\ saving = ABSENT =>
          /\ CountIn(file) = count
          /\ Len(file) > 2 * count \/ count = 0
          /\ \A k \in 1 .. 2 * count : file[k + 1][2] = ValueOf(k)
    /\ saving # ABSENT => \A k \in 0 .. saving - 1 : file[k + 1][2] = ValueOf(k)

\* The invariant as long as no save has failed.
BookInv ==
    /\ BookType /\ BookGenuine
    /\ risks = {} => BookStraight
    /\ "deleted" \notin risks => Growing
    /\ "cut" \notin risks => Current

\* The keys of contact i.
LEMMA KeysOfContact ==
    /\ \A i \in Nat \ {0} :
          /\ 2 * i - 1 \in Nat \ {0} /\ 2 * i \in Nat \ {0}
          /\ ((2 * i - 1) + 1) \div 2 = i /\ (2 * i + 1) \div 2 = i
          /\ (2 * i - 1) % 2 = 1 /\ (2 * i) % 2 = 0
    /\ \A m \in Nat : \A k \in 1 .. 2 * m :
          \E i \in 1 .. m : k = 2 * i - 1 \/ k = 2 * i
<1>1. \A m \in Nat : \A k \in 1 .. 2 * m : \E i \in 1 .. m : k = 2 * i - 1 \/ k = 2 * i
  <2> TAKE m \in Nat
  <2> TAKE k \in 1 .. 2 * m
  <2>1. (k + 1) \div 2 \in 1 .. m
    OBVIOUS
  <2>2. k = 2 * ((k + 1) \div 2) - 1 \/ k = 2 * ((k + 1) \div 2)
    OBVIOUS
  <2> QED BY <2>1, <2>2
<1>2. ASSUME NEW i \in Nat \ {0}
      PROVE  /\ 2 * i - 1 \in Nat \ {0} /\ 2 * i \in Nat \ {0}
             /\ ((2 * i - 1) + 1) \div 2 = i /\ (2 * i + 1) \div 2 = i
             /\ (2 * i - 1) % 2 = 1 /\ (2 * i) % 2 = 0
  OBVIOUS
<1> QED BY <1>1, <1>2

\* What save_all writes for the keys of contact i.
LEMMA ValuesOfContact ==
    ASSUME NEW i \in 1 .. MaxContacts
    PROVE  /\ ValueOf(2 * i - 1) = entries[i].name
           /\ ValueOf(2 * i) = entries[i].address
           /\ ValueOf(2 * i - 1)' = entries'[i].name
           /\ ValueOf(2 * i)' = entries'[i].address
<1>1. i \in Nat \ {0}
  BY BookAssumption
<1>2. /\ ((2 * i - 1) + 1) \div 2 = i /\ (2 * i + 1) \div 2 = i
      /\ (2 * i - 1) % 2 = 1 /\ (2 * i) % 2 = 0
      /\ 2 * i - 1 # 0 /\ 2 * i # 0
  BY <1>1, KeysOfContact
<1> QED BY <1>2 DEF ValueOf

\* What a save writes is a count or a text, as its key demands.
LEMMA ValueIsText ==
    ASSUME entries \in [1 .. MaxContacts -> Entry], count \in 0 .. MaxContacts,
           NEW k \in 0 .. 2 * MaxContacts
    PROVE  ValueOf(k) \in (IF k = 0 THEN 0 .. MaxContacts ELSE Strings)
<1>1. CASE k = 0
  BY <1>1 DEF ValueOf
<1>2. CASE k # 0
  <2>1. MaxContacts \in Nat
    BY BookAssumption
  <2>2. k \in 1 .. 2 * MaxContacts
    BY <1>2, <2>1
  <2>3. PICK i \in 1 .. MaxContacts : k = 2 * i - 1 \/ k = 2 * i
    BY <2>1, <2>2, KeysOfContact
  <2>4. entries[i].name \in Strings /\ entries[i].address \in Strings
    BY DEF Entry
  <2> QED BY <1>2, <2>3, <2>4, ValuesOfContact
<1> QED BY <1>1, <1>2

\* The line of key k is the line k + 1.
LEMMA LineOfKey ==
    ASSUME NEW lines, Ordered(lines), NEW k \in Nat
    PROVE  /\ LineOf(lines, k) = IF k < Len(lines) THEN k + 1 ELSE 0
           /\ Load(lines, k) = IF k < Len(lines) THEN lines[k + 1][2] ELSE ABSENT
<1>1. Len(lines) \in Nat
  BY DEF Ordered
<1>2. \A n \in 1 .. Len(lines) : lines[n][1] = n - 1
  BY DEF Ordered
<1>3. FirstLine(lines, k, IF k < Len(lines) THEN k + 1 ELSE 0)
  <2>1. CASE k < Len(lines)
    <3>1. k + 1 \in 1 .. Len(lines) /\ lines[k + 1][1] = k
      BY <1>1, <1>2, <2>1
    <3>2. \A i \in 1 .. k : lines[i][1] # k
      BY <1>1, <1>2, <2>1
    <3> QED BY <2>1, <3>1, <3>2 DEF FirstLine
  <2>2. CASE ~(k < Len(lines))
    BY <1>1, <1>2, <2>2 DEF FirstLine
  <2> QED BY <2>1, <2>2
<1>4. LineOf(lines, k) = IF k < Len(lines) THEN k + 1 ELSE 0
  BY <1>1, <1>3, LineOfIsFirst, FirstLineUnique
<1> QED BY <1>4 DEF Load

\* A key that is absent has no number as its value.
LEMMA AbsentIsNoNumber == ABSENT \notin Int
<1>1. (Names \cup Addresses \cup {EMPTY, CUT, ABSENT}) \cap Int = {}
  BY BookAssumption, Zenon
<1>2. ABSENT \in Names \cup Addresses \cup {EMPTY, CUT, ABSENT}
  OBVIOUS
<1> QED BY <1>1, <1>2, Zenon

\* The count a file holds.
LEMMA CountOfLines ==
    ASSUME NEW lines, Ordered(lines)
    PROVE  /\ CountIn(lines) = IF Len(lines) = 0 THEN 0 ELSE lines[1][2]
           /\ CountIn(lines) \in 0 .. MaxContacts
<1>1. Len(lines) \in Nat
  BY DEF Ordered
<1>2. Load(lines, 0) = IF 0 < Len(lines) THEN lines[1][2] ELSE ABSENT
  BY LineOfKey
<1>3. Len(lines) # 0 => lines[1][2] \in 0 .. MaxContacts
  <2>1. \A n \in 1 .. Len(lines) : lines[n][2] \in (IF n = 1 THEN 0 .. MaxContacts ELSE Strings)
    BY DEF Ordered
  <2>2. Len(lines) # 0 => 1 \in 1 .. Len(lines)
    BY <1>1
  <2> QED BY <2>1, <2>2, Zenon
<1>4. ABSENT \notin 0 .. MaxContacts
  BY AbsentIsNoNumber
<1> QED BY <1>1, <1>2, <1>3, <1>4, BookAssumption DEF CountIn

\* The contacts a file holds.
LEMMA ContentsOfLines ==
    ASSUME NEW lines, Ordered(lines)
    PROVE  /\ Contents(lines) \in [1 .. CountIn(lines) -> Entry]
           /\ \A i \in 1 .. CountIn(lines) :
                 /\ Contents(lines)[i].name
                       = IF 2 * i <= Len(lines) THEN lines[2 * i][2] ELSE EMPTY
                 /\ Contents(lines)[i].address
                       = IF 2 * i < Len(lines) THEN lines[2 * i + 1][2] ELSE EMPTY
<1>1. Len(lines) \in Nat /\ CountIn(lines) \in Nat
  BY CountOfLines, BookAssumption DEF Ordered
<1>2. \A k \in Nat \ {0} : k < Len(lines) => lines[k + 1][2] \in Strings
  BY <1>1 DEF Ordered
<1>3. \A k \in Nat \ {0} :
        LoadText(lines, k) = IF k < Len(lines) THEN lines[k + 1][2] ELSE EMPTY
  <2> TAKE k \in Nat \ {0}
  <2>1. k < Len(lines) => lines[k + 1][2] # ABSENT
    BY <1>2, BookAssumption DEF Strings
  <2> QED BY <2>1, LineOfKey DEF LoadText
<1>4. ASSUME NEW i \in 1 .. CountIn(lines)
      PROVE  /\ LoadText(lines, 2 * i - 1)
                   = IF 2 * i <= Len(lines) THEN lines[2 * i][2] ELSE EMPTY
             /\ LoadText(lines, 2 * i)
                   = IF 2 * i < Len(lines) THEN lines[2 * i + 1][2] ELSE EMPTY
             /\ LoadText(lines, 2 * i - 1) \in Strings /\ LoadText(lines, 2 * i) \in Strings
  <2>1. i \in Nat \ {0}
    BY <1>1
  <2>2. /\ 2 * i - 1 \in Nat \ {0} /\ (2 * i - 1) + 1 = 2 * i /\ 2 * i \in Nat \ {0}
        /\ 2 * i - 1 < Len(lines) <=> 2 * i <= Len(lines)
    BY <1>1, <2>1
  <2>3. EMPTY \in Strings
    BY DEF Strings
  <2> QED BY <1>2, <1>3, <2>2, <2>3
<1> QED BY <1>4 DEF Contents, Entry

\* A key that has a line is saved there, the next key in a line at the end.
LEMMA SaveInOrder ==
    ASSUME NEW lines, Ordered(lines), NEW k \in BookKeys, k <= Len(lines),
           NEW v \in (IF k = 0 THEN 0 .. MaxContacts ELSE Strings)
    PROVE  /\ Ordered(Save(lines, k, v))
           /\ Len(Save(lines, k, v)) = IF k = Len(lines) THEN k + 1 ELSE Len(lines)
           /\ Save(lines, k, v)[k + 1] = <<k, v>>
           /\ \A n \in 1 .. Len(lines) : n # k + 1 => Save(lines, k, v)[n] = lines[n]
<1> DEFINE new == Save(lines, k, v)
           line == <<k, v>>
<1>1. k \in Nat /\ Len(lines) \in Nat /\ lines \in Seq(BookLine)
  BY BookAssumption DEF BookKeys, Ordered
<1>2. line \in BookLine /\ line[1] = k /\ line[2] = v
  BY DEF BookLine
<1>3. LineOf(lines, k) = IF k < Len(lines) THEN k + 1 ELSE 0
  BY <1>1, LineOfKey
<1> HIDE DEF line
<1>4. CASE k < Len(lines)
  <2>1. new = [lines EXCEPT ![k + 1] = line] /\ k + 1 \in 1 .. Len(lines)
    BY <1>1, <1>3, <1>4 DEF Save, line
  <2> HIDE DEF new
  <2>2. /\ new \in Seq(BookLine) /\ Len(new) = Len(lines)
        /\ \A n \in 1 .. Len(lines) : new[n] = IF n = k + 1 THEN line ELSE lines[n]
    BY <1>1, <1>2, <2>1, ExceptSeq
  <2>3. ASSUME NEW n \in 1 .. Len(lines)
        PROVE  /\ new[n][1] = n - 1
               /\ new[n][2] \in (IF n = 1 THEN 0 .. MaxContacts ELSE Strings)
    <3>1. CASE n = k + 1
      <4>1. n - 1 = k /\ (n = 1 <=> k = 0) /\ new[n] = line
        BY <1>1, <2>2, <3>1
      <4> QED BY <1>2, <4>1
    <3>2. CASE n # k + 1
      BY <2>2, <3>2 DEF Ordered
    <3> QED BY <3>1, <3>2
  <2>4. Ordered(new)
    BY <2>2, <2>3 DEF Ordered
  <2>5. Len(new) = (IF k = Len(lines) THEN k + 1 ELSE Len(lines)) /\ new[k + 1] = line
    BY <1>1, <1>4, <2>1, <2>2
  <2> QED BY <2>2, <2>4, <2>5 DEF new, line
<1>5. CASE k = Len(lines)
  <2>1. new = Append(lines, line)
    BY <1>1, <1>3, <1>5 DEF Save, line
  <2> HIDE DEF new
  <2>2. /\ new \in Seq(BookLine) /\ Len(new) = k + 1 /\ new[k + 1] = line
        /\ \A n \in 1 .. k : new[n] = lines[n]
    BY <1>1, <1>2, <1>5, <2>1, AppendProperties
  <2>3. ASSUME NEW n \in 1 .. k + 1
        PROVE  /\ new[n][1] = n - 1
               /\ new[n][2] \in (IF n = 1 THEN 0 .. MaxContacts ELSE Strings)
    <3>1. CASE n = k + 1
      <4>1. n - 1 = k /\ (n = 1 <=> k = 0) /\ new[n] = line
        BY <1>1, <2>2, <3>1
      <4> QED BY <1>2, <4>1
    <3>2. CASE n # k + 1
      <4>1. n \in 1 .. Len(lines)
        BY <1>1, <1>5, <3>2
      <4> QED BY <1>5, <2>2, <4>1 DEF Ordered
    <3> QED BY <3>1, <3>2
  <2>4. Ordered(new)
    BY <2>2, <2>3 DEF Ordered
  <2> QED BY <1>1, <1>5, <2>2, <2>4 DEF new, line
<1> QED BY <1>1, <1>4, <1>5

\* What the power leaves of a file: its beginning, of which the last line may
\* have lost its end.
LEMMA TornInOrder ==
    ASSUME NEW lines, Ordered(lines), NEW t \in Torn(lines, CutContacts(lines))
    PROVE  /\ Ordered(t) /\ Len(t) <= Len(lines)
           /\ \A n \in 1 .. Len(t) - 1 : t[n] = lines[n]
           /\ \A n \in 2 .. Len(t) :
                 t[n][2] \in {lines[n][2], EMPTY, CUT, lines[n - 1][2]}
           /\ Len(t) > 1 => CountIn(t) = CountIn(lines)
<1>1. Len(lines) \in Nat /\ lines \in Seq(BookLine)
  BY DEF Ordered
<1>2. DOMAIN lines = 1 .. Len(lines) /\ \A n \in 1 .. Len(lines) : lines[n] \in BookLine
  BY <1>1, LenProperties, ElementOfSeq
<1>3. ASSUME NEW n \in 0 .. Len(lines)
      PROVE  /\ SubSeq(lines, 1, n) \in Seq(BookLine) /\ Len(SubSeq(lines, 1, n)) = n
             /\ \A i \in 1 .. n : SubSeq(lines, 1, n)[i] = lines[i]
  <2>1. n \in Int /\ \A i \in 1 .. n : lines[i] \in BookLine
    BY <1>1, <1>2
  <2> QED BY <1>1, <2>1, SubSeqProperties
<1>4. ASSUME NEW n \in 0 .. Len(lines), t = SubSeq(lines, 1, n)
      PROVE  Ordered(t) /\ Len(t) = n /\ \A i \in 1 .. n : t[i] = lines[i]
  BY <1>1, <1>3, <1>4 DEF Ordered
<1>5. ASSUME NEW n \in 1 .. Len(lines), NEW value \in CutContacts(lines)[n],
             t = Append(SubSeq(lines, 1, n - 1), <<lines[n][1], value>>)
      PROVE  /\ Ordered(t) /\ Len(t) = n
             /\ \A i \in 1 .. n - 1 : t[i] = lines[i]
             /\ n # 1 => t[n][2] \in {EMPTY, CUT, lines[n - 1][2]}
  <2> DEFINE line == <<lines[n][1], value>>
             first == SubSeq(lines, 1, n - 1)
  <2>1. n \in Nat /\ n - 1 \in 0 .. Len(lines) /\ lines[n][1] = n - 1
    BY <1>1 DEF Ordered
  <2>2. /\ n = 1 => value \in 0 .. MaxContacts
        /\ n # 1 => value \in {EMPTY, CUT, lines[n - 1][2]} /\ value \in Strings
    BY <1>2, <2>1 DEF CutContacts
  <2>3. line \in BookLine /\ line[1] = n - 1 /\ line[2] = value
    BY <1>2, <2>1, <2>2 DEF BookLine
  <2>4. /\ first \in Seq(BookLine) /\ Len(first) = n - 1
        /\ \A i \in 1 .. n - 1 : first[i] = lines[i]
    BY <1>3, <2>1
  <2>5. t = Append(first, line)
    BY <1>5
  <2> HIDE DEF line, first
  <2>6. /\ t \in Seq(BookLine) /\ Len(t) = n /\ t[n] = line
        /\ \A i \in 1 .. n - 1 : t[i] = first[i]
    BY <2>1, <2>3, <2>4, <2>5, AppendProperties
  <2>7. ASSUME NEW i \in 1 .. n
        PROVE  /\ t[i][1] = i - 1
               /\ t[i][2] \in (IF i = 1 THEN 0 .. MaxContacts ELSE Strings)
    <3>1. CASE i = n
      BY <2>1, <2>2, <2>3, <2>6, <3>1
    <3>2. CASE i # n
      <4>1. i \in 1 .. n - 1 /\ i \in 1 .. Len(lines)
        BY <1>1, <2>1, <3>2
      <4> QED BY <2>4, <2>6, <4>1 DEF Ordered
    <3> QED BY <3>1, <3>2
  <2> QED BY <2>2, <2>3, <2>4, <2>6, <2>7 DEF Ordered
<1>6. /\ Ordered(t) /\ Len(t) <= Len(lines)
      /\ \A n \in 1 .. Len(t) - 1 : t[n] = lines[n]
      /\ \A n \in 2 .. Len(t) : t[n][2] \in {lines[n][2], EMPTY, CUT, lines[n - 1][2]}
  <2>1. CASE \E n \in 0 .. Len(lines) : t = SubSeq(lines, 1, n)
    <3>1. PICK n \in 0 .. Len(lines) : t = SubSeq(lines, 1, n)
      BY <2>1
    <3>2. Ordered(t) /\ Len(t) = n /\ \A i \in 1 .. n : t[i] = lines[i]
      BY <1>4, <3>1
    <3> QED BY <1>1, <3>2
  <2>2. CASE \E n \in 1 .. Len(lines) : \E value \in CutContacts(lines)[n] :
               t = Append(SubSeq(lines, 1, n - 1), <<lines[n][1], value>>)
    <3>0. PICK n \in 1 .. Len(lines) : \E value \in CutContacts(lines)[n] :
               t = Append(SubSeq(lines, 1, n - 1), <<lines[n][1], value>>)
      BY <2>2
    <3>1. PICK value \in CutContacts(lines)[n] :
               t = Append(SubSeq(lines, 1, n - 1), <<lines[n][1], value>>)
      BY <3>0
    <3>2. /\ Ordered(t) /\ Len(t) = n
          /\ \A i \in 1 .. n - 1 : t[i] = lines[i]
          /\ n # 1 => t[n][2] \in {EMPTY, CUT, lines[n - 1][2]}
      BY <1>5, <3>1
    <3>3. n \in Nat /\ n <= Len(lines) /\ \A i \in 2 .. n : i = n \/ i \in 1 .. n - 1
      BY <1>1
    <3>4. \A i \in 2 .. n : t[i][2] \in {lines[i][2], EMPTY, CUT, lines[i - 1][2]}
      BY <3>2, <3>3
    <3> QED BY <3>2, <3>3, <3>4
  <2> QED BY <1>2, <2>1, <2>2 DEF Torn
<1>7. Len(t) > 1 => CountIn(t) = CountIn(lines)
  <2>1. Len(t) \in Nat
    BY <1>6 DEF Ordered
  <2>2. Len(t) > 1 => t[1] = lines[1] /\ Len(t) # 0 /\ Len(lines) # 0
    BY <1>1, <1>6, <2>1
  <2> QED BY <1>6, <2>2, CountOfLines
<1> QED BY <1>6, <1>7

\* The book as a list.
LEMMA ListOfEntries ==
    ASSUME NEW es \in [1 .. MaxContacts -> Entry], NEW c \in 0 .. MaxContacts
    PROVE  /\ SubSeq(es, 1, c) \in Seq(Entry) /\ Len(SubSeq(es, 1, c)) = c
           /\ \A i \in 1 .. c : SubSeq(es, 1, c)[i] = es[i]
<1>1. c \in Nat /\ \A i \in 1 .. c : es[i] \in Entry
  BY BookAssumption
<1>2. /\ SubSeq(es, 1, c) \in Seq(Entry)
      /\ Len(SubSeq(es, 1, c)) = IF 1 <= c THEN c - 1 + 1 ELSE 0
      /\ \A i \in 1 .. c - 1 + 1 : SubSeq(es, 1, c)[i] = es[1 + i - 1]
  BY <1>1, SubSeqProperties
<1>3. /\ c - 1 + 1 = c /\ (1 <= c \/ c = 0)
      /\ \A i \in 1 .. c : 1 + i - 1 = i
  BY <1>1
<1> QED BY <1>2, <1>3

\* What a file holds is a list of contacts, as many as its count says.
LEMMA ListOfLines ==
    ASSUME NEW lines, Ordered(lines)
    PROVE  Contents(lines) \in Seq(Entry) /\ Len(Contents(lines)) = CountIn(lines)
<1>1. CountIn(lines) \in Nat
  BY CountOfLines, BookAssumption
<1>2. Contents(lines) \in [1 .. CountIn(lines) -> Entry]
  BY ContentsOfLines
<1>3. Contents(lines) \in Seq(Entry)
  BY <1>1, <1>2, SeqDef
<1> QED BY <1>1, <1>2, <1>3, LenProperties

\* Where the lines of the book are in the file, the file holds its contacts.
LEMMA LinesHoldEntries ==
    ASSUME BookType, NEW i \in 1 .. CountIn(file),
           \A k \in {2 * i - 1, 2 * i} : k < Len(file) => file[k + 1][2] = ValueOf(k)
    PROVE  /\ Genuine(entries[i]) => Genuine(Contents(file)[i])
           /\ Straight(entries[i]) => Straight(Contents(file)[i])
           /\ 2 * i < Len(file) => Contents(file)[i] = entries[i]
<1>1. i \in 1 .. MaxContacts /\ i \in Nat /\ Len(file) \in Nat
  BY CountOfLines, BookAssumption DEF BookType, Ordered
<1>2. /\ Contents(file)[i] \in Entry /\ entries[i] \in Entry
      /\ Contents(file)[i].name = IF 2 * i <= Len(file) THEN file[2 * i][2] ELSE EMPTY
      /\ Contents(file)[i].address = IF 2 * i < Len(file) THEN file[2 * i + 1][2] ELSE EMPTY
  BY <1>1, ContentsOfLines DEF BookType
<1>3. (2 * i - 1) + 1 = 2 * i /\ (2 * i - 1 < Len(file) <=> 2 * i <= Len(file))
  BY <1>1
<1>4. /\ 2 * i <= Len(file) => file[2 * i][2] = entries[i].name
      /\ 2 * i < Len(file) => file[2 * i + 1][2] = entries[i].address
  BY <1>1, <1>3, ValuesOfContact
<1>5. 2 * i < Len(file) => 2 * i <= Len(file)
  BY <1>1
<1>6. 2 * i < Len(file) => Contents(file)[i] = entries[i]
  BY <1>2, <1>4, <1>5 DEF Entry
<1>7. 2 * i < Len(file) \/ Contents(file)[i].address = EMPTY
  BY <1>2
<1>8. EMPTY \notin Addresses /\ EMPTY \notin Names
  BY BookAssumption
<1>9. Genuine(entries[i]) => Genuine(Contents(file)[i])
  BY <1>6, <1>7, <1>8 DEF Genuine
<1>10. Straight(entries[i]) => Straight(Contents(file)[i])
  BY <1>2, <1>4, <1>8 DEF Straight
<1> QED BY <1>6, <1>9, <1>10

\* Loading the book shows what the file already held.
LEMMA EnsureLoadedStep ==
    ASSUME BookInv, EnsureLoaded
    PROVE  BookInv' /\ Visible' = Visible
<1> DEFINE c == CountIn(file)
<1>1. /\ Ordered(file) /\ count = -1 /\ saving = ABSENT /\ Len(file) \in Nat
      /\ count' = c /\ saving' = ABSENT /\ file' = file /\ added' = added
  BY BookAssumption DEF BookInv, BookType, EnsureLoaded, Ordered
<1>2. c \in 0 .. MaxContacts /\ c \in Nat /\ c # -1 /\ MaxContacts \in Nat
  <2>1. MaxContacts \in Nat
    BY BookAssumption
  <2>2. c \in 0 .. MaxContacts
    BY <1>1, CountOfLines
  <2> QED BY <2>1, <2>2
<1>3. /\ entries' \in [1 .. MaxContacts -> Entry]
      /\ \A i \in 1 .. c : i \in 1 .. MaxContacts /\ entries'[i] = Contents(file)[i]
      /\ \A i \in 1 .. MaxContacts : i \in 1 .. c \/ entries'[i] = NoEntry
  <2>1. entries' = [i \in 1 .. MaxContacts |-> IF i <= c THEN Contents(file)[i] ELSE NoEntry]
    BY DEF EnsureLoaded
  <2>2. \A i \in 1 .. c : Contents(file)[i] \in Entry
    BY <1>1, ContentsOfLines
  <2>3. \A i \in 1 .. MaxContacts : i <= c <=> i \in 1 .. c
    BY <1>2
  <2>4. \A i \in 1 .. c : i \in 1 .. MaxContacts
    BY <1>2
  <2>5. NoEntry \in Entry
    BY DEF NoEntry, Entry, Strings
  <2> QED BY <2>1, <2>2, <2>3, <2>4, <2>5
<1>4. \A k \in 1 .. 2 * c : k < Len(file) => ValueOf(k)' = file[k + 1][2]
  <2> SUFFICES ASSUME NEW k \in 1 .. 2 * c, k < Len(file)
               PROVE  ValueOf(k)' = file[k + 1][2]
    OBVIOUS
  <2>1. PICK i \in 1 .. c : k = 2 * i - 1 \/ k = 2 * i
    BY <1>2, KeysOfContact
  <2>2. i \in 1 .. MaxContacts /\ entries'[i] = Contents(file)[i] /\ i \in Nat
    BY <1>2, <1>3
  <2>3. CASE k = 2 * i - 1
    <3>1. ValueOf(k)' = Contents(file)[i].name
      BY <2>2, <2>3, ValuesOfContact
    <3>2. 2 * i <= Len(file) /\ k + 1 = 2 * i
      BY <1>1, <2>2, <2>3
    <3> QED BY <1>1, <3>1, <3>2, ContentsOfLines
  <2>4. CASE k = 2 * i
    <3>1. ValueOf(k)' = Contents(file)[i].address
      BY <2>2, <2>4, ValuesOfContact
    <3> QED BY <1>1, <2>4, <3>1, ContentsOfLines
  <2> QED BY <2>1, <2>3, <2>4
<1> HIDE DEF c
<1>5. BookType'
  BY <1>1, <1>2, <1>3 DEF BookType
<1>6. BookGenuine'
  <2>1. \A i \in 1 .. c : Genuine(Contents(file)[i])
    BY <1>1 DEF BookInv, BookGenuine, c
  <2>2. Genuine(NoEntry)
    BY BookAssumption DEF Genuine, NoEntry
  <2>3. \A i \in 1 .. MaxContacts : Genuine(entries'[i])
    BY <1>3, <2>1, <2>2
  <2> QED BY <1>1, <1>2, <2>3 DEF BookGenuine, Genuine
<1>10. ASSUME risks = {}
       PROVE  BookStraight'
  <2>1. \A i \in 1 .. c : Straight(Contents(file)[i])
    BY <1>1, <1>10 DEF BookInv, BookStraight, c
  <2>2. Straight(NoEntry)
    BY BookAssumption DEF Straight, NoEntry
  <2>3. \A i \in 1 .. MaxContacts : Straight(entries'[i])
    BY <1>3, <2>1, <2>2
  <2> QED BY <1>1, <1>2, <2>3 DEF BookStraight, Straight
<1>7. ASSUME "deleted" \notin risks
      PROVE  Growing'
  <2>1. Len(file) <= 2 * c + 1
    BY <1>7 DEF BookInv, Growing, c
  <2>2. ASSUME NEW n \in 2 .. Len(file)
        PROVE  file[n][2] = ValueOf(n - 1)'
    <3>1. n - 1 \in 1 .. 2 * c /\ n - 1 < Len(file) /\ (n - 1) + 1 = n
      BY <1>1, <1>2, <2>1
    <3> QED BY <1>4, <3>1
  <2>3. CountIn(file)' = c
    BY <1>1 DEF c
  <2> QED BY <1>1, <2>1, <2>2, <2>3 DEF Growing
<1>8. ASSUME "cut" \notin risks
      PROVE  Current'
  <2>1. Len(file) = 0 \/ Len(file) > 2 * c
    BY <1>1, <1>8 DEF BookInv, Current, c
  <2>2. Len(file) = 0 => c = 0
    BY <1>1, CountOfLines DEF c
  <2>3. c = 0 \/ Len(file) > 2 * c
    BY <2>1, <2>2
  <2>4. ASSUME NEW k \in 1 .. 2 * c
        PROVE  file[k + 1][2] = ValueOf(k)'
    <3>1. k < Len(file)
      BY <1>1, <1>2, <2>3
    <3> QED BY <1>4, <3>1
  <2>5. CountIn(file)' = c
    BY <1>1 DEF c
  <2> QED BY <1>1, <1>2, <2>3, <2>4, <2>5 DEF Current
<1>9. Visible' = Visible
  <2>1. Visible = Contents(file) /\ Visible' = SubSeq(entries', 1, c)
    BY <1>1, <1>2 DEF Visible, Book
  <2>2. Contents(file) \in Seq(Entry) /\ Len(Contents(file)) = c
    BY <1>1, ListOfLines DEF c
  <2>3. /\ SubSeq(entries', 1, c) \in Seq(Entry) /\ Len(SubSeq(entries', 1, c)) = c
        /\ \A i \in 1 .. c : SubSeq(entries', 1, c)[i] = entries'[i]
    BY <1>2, <1>3, ListOfEntries
  <2>4. SubSeq(entries', 1, c) = Contents(file)
    BY <1>3, <2>2, <2>3, SeqEqual
  <2> QED BY <2>1, <2>4
<1>11. risks' = risks
  BY DEF EnsureLoaded
<1> QED BY <1>5, <1>6, <1>7, <1>8, <1>9, <1>10, <1>11 DEF BookInv

\* An addition puts the new contact behind all that were visible.
LEMMA AddStep ==
    ASSUME BookInv, NEW name \in Names, NEW address \in Addresses,
           Add(name, address)
    PROVE  BookInv' /\ Visible' = Append(Visible, [name |-> name, address |-> address])
                    /\ Len(Visible) < MaxContacts
<1> DEFINE new == [name |-> name, address |-> address]
<1>1. /\ Ordered(file) /\ Len(file) \in Nat /\ MaxContacts \in Nat
      /\ count \in Nat /\ count < MaxContacts /\ count # -1
      /\ saving = ABSENT /\ saving' = 0 /\ count' = count + 1 /\ file' = file
      /\ entries \in [1 .. MaxContacts -> Entry]
      /\ entries' = [entries EXCEPT ![count + 1] = new] /\ added' = added \cup {new}
  BY BookAssumption DEF BookInv, BookType, Add, Ordered
<1>2. new \in Entry /\ 0 # ABSENT
  BY BookAssumption DEF Entry, Strings
<1> HIDE DEF new
<1>3. /\ entries' \in [1 .. MaxContacts -> Entry] /\ count + 1 \in 1 .. MaxContacts
      /\ entries'[count + 1] = new
      /\ \A i \in 1 .. MaxContacts : i # count + 1 => entries'[i] = entries[i]
      /\ \A i \in 1 .. count : i \in 1 .. MaxContacts /\ entries'[i] = entries[i]
  BY <1>1, <1>2
<1>4. BookType'
  <2>1. /\ Ordered(file') /\ entries' \in [1 .. MaxContacts -> Entry]
    BY <1>1, <1>3
  <2>2. count' \in -1 .. MaxContacts /\ count' # -1 /\ saving' <= 2 * count'
    BY <1>1
  <2>3. saving' \in BookKeys /\ saving' <= Len(file')
    BY <1>1 DEF BookKeys
  <2> QED BY <2>1, <2>2, <2>3 DEF BookType
<1>5. BookGenuine'
  <2>1. \A i \in 1 .. MaxContacts : Genuine(entries[i])
    BY DEF BookInv, BookGenuine
  <2>2. \A i \in 1 .. MaxContacts :
            entries'[i].name \in Names /\ entries'[i].address \in Addresses
                => entries'[i] \in added'
    <3> TAKE i \in 1 .. MaxContacts
    <3>1. CASE i = count + 1
      BY <1>1, <1>3, <3>1
    <3>2. CASE i # count + 1
      BY <1>1, <1>3, <2>1, <3>2 DEF Genuine
    <3> QED BY <3>1, <3>2
  <2>3. count' # -1
    BY <1>1
  <2> QED BY <2>2, <2>3 DEF BookGenuine, Genuine
<1>9. ASSUME risks = {}
      PROVE  BookStraight'
  <2>1. \A i \in 1 .. MaxContacts : Straight(entries[i])
    BY <1>9 DEF BookInv, BookStraight
  <2>2. Straight(new)
    BY BookAssumption DEF Straight, new
  <2>3. \A i \in 1 .. MaxContacts : Straight(entries'[i])
    BY <1>3, <2>1, <2>2
  <2>4. count' # -1
    BY <1>1
  <2> QED BY <2>3, <2>4 DEF BookStraight, Straight
<1>6. ASSUME "deleted" \notin risks
      PROVE  Growing'
  <2>1. /\ Len(file) <= 2 * CountIn(file) + 1 /\ Len(file) <= 2 * count + 1
        /\ \A n \in 2 .. Len(file) : file[n][2] = ValueOf(n - 1)
    BY <1>1, <1>6 DEF BookInv, Growing
  <2>2. ASSUME NEW n \in 2 .. Len(file)
        PROVE  ValueOf(n - 1)' = ValueOf(n - 1)
    <3>1. n - 1 \in 1 .. 2 * count
      BY <1>1, <2>1
    <3>2. PICK i \in 1 .. count : n - 1 = 2 * i - 1 \/ n - 1 = 2 * i
      BY <1>1, <3>1, KeysOfContact
    <3>3. i \in 1 .. MaxContacts /\ entries'[i] = entries[i]
      BY <1>3
    <3> QED BY <3>2, <3>3, ValuesOfContact
  <2>3. Len(file) <= 2 * (count + 1) + 1
    BY <1>1, <2>1
  <2>4. CountIn(file)' = CountIn(file)
    BY <1>1
  <2> QED BY <1>1, <2>1, <2>2, <2>3, <2>4 DEF Growing
<1>7. Current'
  <2>1. count' # -1 /\ saving' # ABSENT /\ 0 .. saving' - 1 = {}
    BY <1>1, <1>2
  <2> QED BY <2>1 DEF Current
<1>8. Visible' = Append(Visible, new) /\ Len(Visible) < MaxContacts
  <2>1. /\ Visible = SubSeq(entries, 1, count) /\ count + 1 # -1
        /\ Visible' = SubSeq(entries', 1, count + 1)
    BY <1>1 DEF Visible, Book
  <2>2. /\ Visible \in Seq(Entry) /\ Len(Visible) = count
        /\ \A i \in 1 .. count : Visible[i] = entries[i]
    BY <1>1, <2>1, ListOfEntries
  <2>3. /\ Visible' \in Seq(Entry) /\ Len(Visible') = count + 1
        /\ \A i \in 1 .. count + 1 : Visible'[i] = entries'[i]
    BY <1>1, <1>3, <2>1, ListOfEntries
  <2> DEFINE longer == Append(Visible, new)
  <2>4. /\ longer \in Seq(Entry) /\ Len(longer) = count + 1 /\ longer[count + 1] = new
        /\ \A i \in 1 .. count : longer[i] = Visible[i]
    BY <1>2, <2>2, AppendProperties
  <2> HIDE DEF longer
  <2>5. \A i \in 1 .. count + 1 : i \in 1 .. count \/ i = count + 1
    BY <1>1
  <2>6. \A i \in 1 .. count + 1 : Visible'[i] = longer[i]
    BY <1>3, <2>2, <2>3, <2>4, <2>5
  <2>7. Visible' = longer
    BY <2>3, <2>4, <2>6, SeqEqual
  <2> QED BY <1>1, <2>2, <2>7 DEF longer
<1>10. risks' = risks
  BY DEF Add
<1> QED BY <1>4, <1>5, <1>6, <1>7, <1>8, <1>9, <1>10 DEF BookInv, new

\* A deletion takes one contact out of those that were visible.
LEMMA DeleteStep ==
    ASSUME BookInv, NEW index \in 1 .. MaxContacts, Delete(index)
    PROVE  BookInv' /\ index \in DOMAIN Visible /\ Visible' = RemoveAt(Visible, index)
<1>1. /\ Ordered(file) /\ Len(file) \in Nat /\ MaxContacts \in Nat
      /\ count \in Nat /\ count <= MaxContacts /\ index \in 1 .. count /\ count > 0
      /\ saving = ABSENT /\ saving' = 0 /\ count' = count - 1 /\ file' = file
      /\ entries \in [1 .. MaxContacts -> Entry] /\ added' = added
      /\ entries' = [i \in 1 .. MaxContacts |->
                        IF i \in index .. count - 1 THEN entries[i + 1] ELSE entries[i]]
  BY BookAssumption DEF BookInv, BookType, Delete, Ordered
<1>2. /\ entries' \in [1 .. MaxContacts -> Entry]
      /\ \A i \in 1 .. MaxContacts :
            \/ entries'[i] = entries[i]
            \/ i + 1 \in 1 .. MaxContacts /\ entries'[i] = entries[i + 1]
      /\ \A i \in 1 .. count - 1 :
            entries'[i] = IF i < index THEN entries[i] ELSE entries[i + 1]
  <2>1. \A i \in index .. count - 1 : i + 1 \in 1 .. MaxContacts
    BY <1>1
  <2>2. \A i \in 1 .. count - 1 : i \in 1 .. MaxContacts /\ (i \in index .. count - 1 <=> ~(i < index))
    BY <1>1
  <2>3. \A i \in 1 .. MaxContacts :
            entries'[i] = IF i \in index .. count - 1 THEN entries[i + 1] ELSE entries[i]
    BY <1>1
  <2>4. entries' \in [1 .. MaxContacts -> Entry]
    BY <1>1, <2>1
  <2> QED BY <2>1, <2>2, <2>3, <2>4
<1>3. BookType'
  <2>1. count' \in -1 .. MaxContacts /\ count' # -1 /\ saving' <= 2 * count'
    BY <1>1
  <2>2. saving' \in BookKeys /\ saving' <= Len(file') /\ Ordered(file')
    BY <1>1 DEF BookKeys
  <2> QED BY <1>2, <2>1, <2>2 DEF BookType
<1>4. BookGenuine'
  <2>1. \A i \in 1 .. MaxContacts : Genuine(entries[i])
    BY DEF BookInv, BookGenuine
  <2>2. \A i \in 1 .. MaxContacts : Genuine(entries'[i])
    BY <1>2, <2>1
  <2>3. count' # -1
    BY <1>1
  <2> QED BY <1>1, <2>2, <2>3 DEF BookGenuine, Genuine
<1>5. Current'
  <2>1. 0 # ABSENT
    BY AbsentIsNoNumber
  <2>2. saving' = 0 /\ count' # -1
    BY <1>1
  <2>3. 0 .. 0 - 1 = {}
    OBVIOUS
  <2>4. count' # -1 /\ saving' # ABSENT /\ 0 .. saving' - 1 = {}
    BY <2>1, <2>2, <2>3
  <2> QED BY <2>4 DEF Current
<1>6. /\ Visible \in Seq(Entry) /\ Len(Visible) = count
      /\ \A i \in 1 .. count : Visible[i] = entries[i]
  <2>1. Visible = SubSeq(entries, 1, count) /\ count \in 0 .. MaxContacts
    BY <1>1 DEF Visible, Book
  <2> QED BY <1>1, <2>1, ListOfEntries
<1>7. /\ Visible' \in Seq(Entry) /\ Len(Visible') = count - 1
      /\ \A i \in 1 .. count - 1 : Visible'[i] = entries'[i]
  <2>1. Visible' = SubSeq(entries', 1, count - 1) /\ count - 1 \in 0 .. MaxContacts
    BY <1>1 DEF Visible, Book
  <2> QED BY <1>2, <2>1, ListOfEntries
<1>8. /\ RemoveAt(Visible, index) \in Seq(Entry) /\ Len(RemoveAt(Visible, index)) = count - 1
      /\ \A i \in 1 .. count - 1 :
            RemoveAt(Visible, index)[i] = IF i < index THEN Visible[i] ELSE Visible[i + 1]
  <2> DEFINE left == SubSeq(Visible, 1, index - 1)
             right == SubSeq(Visible, index + 1, count)
  <2>1. \A i \in 1 .. count : Visible[i] \in Entry
    BY <1>6, ElementOfSeq
  <2>2. /\ index \in Nat /\ index - 1 \in Nat
        /\ \A i \in 1 .. index - 1 : i \in 1 .. count
        /\ \A i \in index + 1 .. count : i \in 1 .. count
    BY <1>1
  <2>3. /\ left \in Seq(Entry)
        /\ Len(left) = IF 1 <= index - 1 THEN (index - 1) - 1 + 1 ELSE 0
        /\ \A i \in 1 .. (index - 1) - 1 + 1 : left[i] = Visible[1 + i - 1]
    BY <2>1, <2>2, SubSeqProperties
  <2>4. /\ right \in Seq(Entry)
        /\ Len(right) = IF index + 1 <= count THEN count - (index + 1) + 1 ELSE 0
        /\ \A i \in 1 .. count - (index + 1) + 1 : right[i] = Visible[(index + 1) + i - 1]
    <3>1. index + 1 \in Int /\ count \in Int
      BY <1>1, <2>2
    <3>2. \A i \in index + 1 .. count : Visible[i] \in Entry
      BY <2>1, <2>2
    <3> QED BY <3>1, <3>2, SubSeqProperties
  <2>5. RemoveAt(Visible, index) = left \o right
    BY <1>6 DEF RemoveAt
  <2> HIDE DEF left, right
  <2>6. Len(left) = index - 1 /\ Len(right) = count - index
    BY <1>1, <2>2, <2>3, <2>4
  <2>7. /\ left \o right \in Seq(Entry) /\ Len(left \o right) = (index - 1) + (count - index)
        /\ \A i \in 1 .. (index - 1) + (count - index) :
              (left \o right)[i] = IF i <= index - 1 THEN left[i] ELSE right[i - (index - 1)]
    <3>1. /\ left \o right \in Seq(Entry) /\ Len(left \o right) = Len(left) + Len(right)
          /\ \A i \in 1 .. Len(left) + Len(right) :
                (left \o right)[i] = IF i <= Len(left) THEN left[i] ELSE right[i - Len(left)]
      BY <2>3, <2>4, ConcatProperties
    <3> QED BY ONLY <2>6, <3>1
  <2>8. (index - 1) + (count - index) = count - 1
    BY <1>1, <2>2
  <2>9. ASSUME NEW i \in 1 .. count - 1
        PROVE  (left \o right)[i] = IF i < index THEN Visible[i] ELSE Visible[i + 1]
    <3>1. CASE i < index
      <4>1. i \in 1 .. (index - 1) - 1 + 1 /\ i <= index - 1 /\ 1 + i - 1 = i
        BY <1>1, <2>2, <3>1
      <4> QED BY <2>3, <2>7, <2>8, <3>1, <4>1
    <3>2. CASE ~(i < index)
      <4>1. /\ i - (index - 1) \in 1 .. count - (index + 1) + 1 /\ ~(i <= index - 1)
            /\ (index + 1) + (i - (index - 1)) - 1 = i + 1
        BY <1>1, <2>2, <3>2
      <4> QED BY <2>4, <2>7, <2>8, <3>2, <4>1
    <3> QED BY <3>1, <3>2
  <2> QED BY <2>5, <2>7, <2>8, <2>9
<1>9. Visible' = RemoveAt(Visible, index)
  <2>1. \A i \in 1 .. count - 1 : i \in 1 .. count /\ i + 1 \in 1 .. count
    BY <1>1
  <2>2. \A i \in 1 .. count - 1 : Visible'[i] = RemoveAt(Visible, index)[i]
    <3>1. \A i \in 1 .. count - 1 : Visible'[i] = IF i < index THEN entries[i] ELSE entries[i + 1]
      BY <1>2, <1>7
    <3>2. \A i \in 1 .. count - 1 : Visible[i] = entries[i] /\ Visible[i + 1] = entries[i + 1]
      BY <1>6, <2>1
    <3>3. \A i \in 1 .. count - 1 :
             RemoveAt(Visible, index)[i] = IF i < index THEN Visible[i] ELSE Visible[i + 1]
      BY <1>8
    <3> HIDE DEF Visible
    <3> QED BY <3>1, <3>2, <3>3
  <2> QED BY <1>7, <1>8, <2>2, SeqEqual
<1>10. index \in DOMAIN Visible
  BY <1>1, <1>6, LenProperties
<1>11. "deleted" \in risks'
  BY DEF Delete
<1> QED BY <1>3, <1>4, <1>5, <1>9, <1>10, <1>11 DEF BookInv

\* Writing one key of a save changes nothing that is visible: the book in
\* memory counts until the save is over, and then the file holds the same.
LEMMA SaveKeyStep ==
    ASSUME BookInv, SaveKey, file' = Written(saving), risks' = risks
    PROVE  BookInv' /\ Visible' = Visible
<1> DEFINE value == ValueOf(saving)
<1>1. /\ Ordered(file) /\ Len(file) \in Nat /\ MaxContacts \in Nat
      /\ count \in 0 .. MaxContacts /\ count \in Nat /\ count # -1
      /\ entries \in [1 .. MaxContacts -> Entry]
      /\ saving # ABSENT /\ saving \in BookKeys /\ saving \in Nat
      /\ saving <= 2 * count /\ saving <= Len(file)
      /\ saving' = IF saving = 2 * count THEN ABSENT ELSE saving + 1
      /\ file' = Save(file, saving, value)
      /\ entries' = entries /\ count' = count /\ added' = added
  <2>1. MaxContacts \in Nat
    BY BookAssumption
  <2>2. /\ Ordered(file) /\ Len(file) \in Nat
        /\ entries \in [1 .. MaxContacts -> Entry] /\ count \in -1 .. MaxContacts
        /\ saving # ABSENT /\ saving \in 0 .. 2 * MaxContacts
        /\ count # -1 /\ saving <= 2 * count /\ saving <= Len(file)
    BY DEF BookInv, BookType, BookKeys, SaveKey, Ordered
  <2>3. count \in 0 .. MaxContacts /\ count \in Nat /\ saving \in Nat
    BY <2>1, <2>2
  <2>4. file' = Save(file, saving, value)
    BY DEF Written
  <2> QED BY <2>1, <2>2, <2>3, <2>4 DEF SaveKey, BookKeys
<1>2. value \in (IF saving = 0 THEN 0 .. MaxContacts ELSE Strings)
  BY <1>1, ValueIsText DEF BookKeys
<1>3. \A k : ValueOf(k)' = ValueOf(k)
  BY <1>1 DEF ValueOf
<1>4. value = count \/ saving # 0
  BY DEF ValueOf
<1> HIDE DEF value
<1>5. /\ Ordered(file')
      /\ Len(file') = IF saving = Len(file) THEN saving + 1 ELSE Len(file)
      /\ file'[saving + 1] = <<saving, value>>
      /\ \A n \in 1 .. Len(file) : n # saving + 1 => file'[n] = file[n]
  <2> DEFINE new == Save(file, saving, value)
  <2>1. /\ Ordered(new)
        /\ Len(new) = IF saving = Len(file) THEN saving + 1 ELSE Len(file)
        /\ new[saving + 1] = <<saving, value>>
        /\ \A n \in 1 .. Len(file) : n # saving + 1 => new[n] = file[n]
    BY <1>1, <1>2, SaveInOrder
  <2>2. file' = new
    BY <1>1
  <2> HIDE DEF new
  <2> QED BY <2>1, <2>2
<1>6. /\ Len(file') \in Nat /\ saving + 1 <= Len(file') /\ Len(file) <= Len(file')
      /\ \A n \in 1 .. Len(file') : n = saving + 1 \/ (n \in 1 .. Len(file) /\ n # saving + 1)
  BY <1>1, <1>5
<1>7. file'[saving + 1][2] = value
  BY <1>5
<1>8. BookType'
  <2>1. saving' # ABSENT =>
          saving' \in BookKeys /\ saving' <= 2 * count /\ saving' <= Len(file')
    <3> SUFFICES ASSUME saving' # ABSENT
                 PROVE  saving' \in BookKeys /\ saving' <= 2 * count /\ saving' <= Len(file')
      OBVIOUS
    <3>1. saving' = saving + 1 /\ saving # 2 * count
      BY <1>1
    <3> QED BY <1>1, <1>6, <3>1 DEF BookKeys
  <2> QED BY <1>1, <1>5, <2>1 DEF BookType
<1>9. BookGenuine'
  BY <1>1 DEF BookInv, BookGenuine, Genuine
<1>10. (saving = 0 \/ CountIn(file) = count) => CountIn(file') = count
  <2>1. Len(file') # 0 /\ CountIn(file') = file'[1][2]
    BY <1>1, <1>5, <1>6, CountOfLines
  <2>2. CASE saving = 0
    BY <1>4, <1>7, <2>1, <2>2
  <2>3. CASE saving # 0
    <3>1. 1 \in 1 .. Len(file) /\ 1 # saving + 1 /\ Len(file) # 0
      BY <1>1, <2>3
    <3> QED BY <1>1, <1>5, <2>1, <2>3, <3>1, CountOfLines
  <2> QED BY <2>2, <2>3
<1>14. ASSUME risks = {}
       PROVE  BookStraight'
  BY <1>1, <1>14 DEF BookInv, BookStraight, Straight
<1>11. ASSUME "deleted" \notin risks
       PROVE  Growing'
  <2>1. /\ Len(file) <= 2 * count + 1
        /\ \A n \in 2 .. Len(file) : file[n][2] = ValueOf(n - 1)
        /\ saving # 0 => CountIn(file) = count
    BY <1>1, <1>11 DEF BookInv, Growing
  <2>2. CountIn(file') = count
    BY <1>10, <2>1
  <2>3. Len(file') <= 2 * count + 1
    BY <1>1, <1>5, <2>1
  <2>4. ASSUME NEW n \in 2 .. Len(file')
        PROVE  file'[n][2] = ValueOf(n - 1)
    <3>1. CASE n = saving + 1
      <4>1. n - 1 = saving
        BY <1>1, <3>1
      <4> QED BY <1>7, <3>1, <4>1 DEF value
    <3>2. CASE n # saving + 1
      <4>1. n \in 2 .. Len(file) /\ n \in 1 .. Len(file)
        BY <1>1, <1>6, <3>2
      <4> QED BY <1>5, <2>1, <3>2, <4>1
    <3> QED BY <3>1, <3>2
  <2> QED BY <1>1, <1>3, <2>2, <2>3, <2>4 DEF Growing
<1>12. ASSUME "cut" \notin risks
       PROVE  Current'
  <2>1. \A k \in 0 .. saving - 1 : file[k + 1][2] = ValueOf(k)
    BY <1>1, <1>12 DEF BookInv, Current
  <2>2. ASSUME NEW k \in 0 .. saving
        PROVE  file'[k + 1][2] = ValueOf(k)
    <3>1. CASE k = saving
      BY <1>7, <3>1 DEF value
    <3>2. CASE k # saving
      <4>1. k \in 0 .. saving - 1 /\ k + 1 \in 1 .. Len(file) /\ k + 1 # saving + 1
        BY <1>1, <3>2
      <4> QED BY <1>5, <2>1, <4>1
    <3> QED BY <3>1, <3>2
  <2>3. CASE saving = 2 * count
    <3>1. CountIn(file') = count
      <4>1. 0 \in 0 .. saving /\ 0 + 1 = 1 /\ ValueOf(0) = count
        BY <1>1 DEF ValueOf
      <4>2. file'[1][2] = count
        BY <2>2, <4>1
      <4>3. Len(file') # 0
        BY <1>1, <1>6
      <4> QED BY <1>5, <4>2, <4>3, CountOfLines
    <3>2. Len(file') > 2 * count
      BY <1>1, <1>6, <2>3
    <3>3. \A k \in 1 .. 2 * count : file'[k + 1][2] = ValueOf(k)
      <4>1. \A k \in 1 .. 2 * count : k \in 0 .. saving
        BY <1>1, <2>3
      <4> QED BY <2>2, <4>1
    <3> QED BY <1>1, <1>3, <2>3, <3>1, <3>2, <3>3 DEF Current
  <2>4. CASE saving # 2 * count
    <3>1. saving' = saving + 1 /\ saving' # ABSENT
      BY <1>1, <2>4, BookAssumption
    <3>2. 0 .. saving' - 1 = 0 .. saving
      BY <1>1, <3>1
    <3> QED BY <1>1, <1>3, <2>2, <3>1, <3>2 DEF Current
  <2> QED BY <2>3, <2>4
<1>13. Visible' = Visible
  BY <1>1 DEF Visible, Book
<1> QED BY <1>8, <1>9, <1>11, <1>12, <1>13, <1>14 DEF BookInv

\* Between two calls, and in a save of a book that only grew, the program that
\* starts next finds contacts that were added; between two calls it finds them
\* all unless a save was cut off.
LEMMA FileIsGenuine ==
    ASSUME BookInv, "deleted" \notin risks \/ (saving = ABSENT /\ "cut" \notin risks)
    PROVE  /\ \A i \in 1 .. CountIn(file) : Genuine(Contents(file)[i])
           /\ risks = {} => \A i \in 1 .. CountIn(file) : Straight(Contents(file)[i])
           /\ saving = ABSENT /\ "cut" \notin risks =>
                 Contents(file) = Visible /\ (Len(file) = 0 \/ Len(file) > 2 * CountIn(file))
<1>1. /\ BookType /\ Ordered(file) /\ Len(file) \in Nat /\ MaxContacts \in Nat
      /\ CountIn(file) \in 0 .. MaxContacts
      /\ \A i \in 1 .. CountIn(file) :
            i \in 1 .. MaxContacts /\ i \in Nat /\ 2 * i - 1 \in Nat /\ 2 * i \in Nat
  BY CountOfLines, BookAssumption DEF BookInv, BookType, Ordered
<1>2. CASE count = -1
  BY <1>2 DEF BookInv, BookGenuine, BookStraight, Current, Visible
<1>3. CASE count # -1
  <2>1. \A i \in 1 .. MaxContacts : Genuine(entries[i])
    BY DEF BookInv, BookGenuine
  <2>2. ASSUME "deleted" \notin risks
        PROVE  /\ \A i \in 1 .. CountIn(file) : Genuine(Contents(file)[i])
               /\ risks = {} => \A i \in 1 .. CountIn(file) : Straight(Contents(file)[i])
    <3>1. \A n \in 2 .. Len(file) : file[n][2] = ValueOf(n - 1)
      BY <1>3, <2>2 DEF BookInv, Growing
    <3>2. ASSUME NEW k \in Nat \ {0}, k < Len(file)
          PROVE  file[k + 1][2] = ValueOf(k)
      <4>1. k + 1 \in 2 .. Len(file) /\ (k + 1) - 1 = k
        BY <1>1, <3>2
      <4> QED BY <3>1, <4>1
    <3>3. ASSUME NEW i \in 1 .. CountIn(file)
          PROVE  Genuine(Contents(file)[i])
      <4>1. \A k \in {2 * i - 1, 2 * i} : k \in Nat \ {0}
        BY <1>1
      <4>2. Genuine(entries[i])
        BY <1>1, <2>1
      <4> QED BY <1>1, <3>2, <4>1, <4>2, LinesHoldEntries
    <3>4. ASSUME risks = {}, NEW i \in 1 .. CountIn(file)
          PROVE  Straight(Contents(file)[i])
      <4>1. \A k \in {2 * i - 1, 2 * i} : k \in Nat \ {0}
        BY <1>1
      <4>2. Straight(entries[i])
        BY <1>1, <3>4 DEF BookInv, BookStraight
      <4> QED BY <1>1, <3>2, <4>1, <4>2, LinesHoldEntries
    <3> QED BY <3>3, <3>4
  <2>3. ASSUME saving = ABSENT, "cut" \notin risks
        PROVE  /\ \A i \in 1 .. CountIn(file) : Genuine(Contents(file)[i])
               /\ Contents(file) = Visible
               /\ Len(file) = 0 \/ Len(file) > 2 * CountIn(file)
    <3>1. /\ saving = ABSENT /\ CountIn(file) = count /\ count \in 0 .. MaxContacts
          /\ Len(file) > 2 * count \/ count = 0
          /\ \A k \in 1 .. 2 * count : file[k + 1][2] = ValueOf(k)
      BY <1>1, <1>3, <2>3 DEF BookInv, Current
    <3>2. ASSUME NEW i \in 1 .. CountIn(file)
          PROVE  Genuine(Contents(file)[i]) /\ Contents(file)[i] = entries[i]
      <4>1. \A k \in {2 * i - 1, 2 * i} : k \in 1 .. 2 * count
        BY <1>1, <3>1
      <4>2. Genuine(entries[i])
        BY <1>1, <2>1
      <4>3. 2 * i < Len(file)
        BY <1>1, <3>1
      <4> QED BY <1>1, <3>1, <4>1, <4>2, <4>3, LinesHoldEntries
    <3>3. Contents(file) = Visible
      <4>1. Visible = SubSeq(entries, 1, count) /\ entries \in [1 .. MaxContacts -> Entry]
        BY <1>1, <1>3 DEF Visible, Book, BookType
      <4>2. /\ Visible \in Seq(Entry) /\ Len(Visible) = count
            /\ \A i \in 1 .. count : Visible[i] = entries[i]
        BY <3>1, <4>1, ListOfEntries
      <4>3. Contents(file) \in Seq(Entry) /\ Len(Contents(file)) = count
        BY <1>1, <3>1, ListOfLines
      <4> QED BY <3>1, <3>2, <4>2, <4>3, SeqEqual
    <3>4. Len(file) = 0 \/ Len(file) > 2 * CountIn(file)
      BY <1>1, <3>1
    <3> QED BY <3>2, <3>3, <3>4
  <2> QED BY <2>2, <2>3
<1> QED BY <1>2, <1>3

\* The program ends: the next one has the file.
LEMMA EndStep ==
    ASSUME BookInv, "deleted" \notin risks \/ (saving = ABSENT /\ "cut" \notin risks),
           saving = ABSENT \/ "cut" \in risks', risks \subseteq risks',
           entries' = [i \in 1 .. MaxContacts |-> NoEntry], count' = -1,
           saving' = ABSENT, added' = added, file' = file
    PROVE  BookInv' /\ ("cut" \notin risks' => Visible' = Visible)
<1>1. /\ \A i \in 1 .. CountIn(file) : Genuine(Contents(file)[i])
      /\ risks = {} => \A i \in 1 .. CountIn(file) : Straight(Contents(file)[i])
      /\ saving = ABSENT /\ "cut" \notin risks =>
            Contents(file) = Visible /\ (Len(file) = 0 \/ Len(file) > 2 * CountIn(file))
  BY FileIsGenuine
<1>2. CountIn(file') = CountIn(file) /\ Contents(file') = Contents(file)
  OBVIOUS
<1>3. NoEntry \in Entry /\ MaxContacts \in Nat
  <2>1. NoEntry \in Entry
    BY DEF NoEntry, Entry, Strings
  <2>2. MaxContacts \in Nat
    BY BookAssumption
  <2> QED BY <2>1, <2>2
<1>4. BookType'
  BY <1>3 DEF BookInv, BookType
<1>5. BookGenuine'
  <2>1. NoEntry.name \notin Names
    BY BookAssumption DEF NoEntry
  <2> QED BY <1>1, <1>2, <2>1 DEF BookGenuine, Genuine
<1>6. "deleted" \notin risks' => Growing'
  BY <1>2 DEF BookInv, Growing
<1>7. "cut" \notin risks' => Current'
  BY <1>1, <1>2 DEF Current
<1>8. risks' = {} => BookStraight'
  <2>1. NoEntry.name \notin Addresses /\ NoEntry.address \notin Names
    BY BookAssumption DEF NoEntry
  <2> QED BY <1>1, <1>2, <2>1 DEF BookStraight, Straight
<1> QED BY <1>1, <1>4, <1>5, <1>6, <1>7, <1>8 DEF BookInv, Visible

\* The file that is being written, of a book that only grew, is in order and has
\* the lines of the book.
LEMMA WrittenInOrder ==
    ASSUME BookInv, "deleted" \notin risks, saving # ABSENT
    PROVE  /\ Ordered(Written(saving)) /\ Len(Written(saving)) \in Nat
           /\ Len(Written(saving)) <= 2 * count + 1
           /\ Len(Written(saving)) # 0 /\ CountIn(Written(saving)) = count
           /\ \A n \in 2 .. Len(Written(saving)) : Written(saving)[n][2] = ValueOf(n - 1)
<1>1. /\ Ordered(file) /\ Len(file) \in Nat /\ MaxContacts \in Nat
      /\ count \in 0 .. MaxContacts /\ count \in Nat
      /\ entries \in [1 .. MaxContacts -> Entry]
      /\ saving \in BookKeys /\ saving \in Nat /\ saving <= Len(file) /\ saving <= 2 * count
  BY BookAssumption DEF BookInv, BookType, BookKeys, Ordered
<1>2. /\ Len(file) <= 2 * count + 1
      /\ \A n \in 2 .. Len(file) : file[n][2] = ValueOf(n - 1)
      /\ saving # 0 => CountIn(file) = count
  BY <1>1, BookAssumption DEF BookInv, Growing
<1>3. ValueOf(saving) \in (IF saving = 0 THEN 0 .. MaxContacts ELSE Strings)
  BY <1>1, ValueIsText DEF BookKeys
<1>4. /\ Ordered(Written(saving))
      /\ Len(Written(saving)) = IF saving = Len(file) THEN saving + 1 ELSE Len(file)
      /\ Written(saving)[saving + 1] = <<saving, ValueOf(saving)>>
      /\ \A n \in 1 .. Len(file) : n # saving + 1 => Written(saving)[n] = file[n]
  BY <1>1, <1>3, SaveInOrder DEF Written
<1>5. Len(Written(saving)) \in Nat /\ Len(Written(saving)) <= 2 * count + 1 /\ Len(Written(saving)) # 0
  BY <1>1, <1>2, <1>4
<1>6. CountIn(Written(saving)) = count
  <2>1. CountIn(Written(saving)) = Written(saving)[1][2]
    BY <1>4, <1>5, CountOfLines
  <2>2. CASE saving = 0
    <3>1. ValueOf(saving) = count
      BY <2>2 DEF ValueOf
    <3> QED BY <1>4, <2>1, <2>2, <3>1
  <2>3. CASE saving # 0
    <3>1. 1 \in 1 .. Len(file) /\ 1 # saving + 1 /\ Len(file) # 0
      BY <1>1, <2>3
    <3> QED BY <1>1, <1>2, <1>4, <2>1, <2>3, <3>1, CountOfLines
  <2> QED BY <2>2, <2>3
<1>7. ASSUME NEW n \in 2 .. Len(Written(saving))
      PROVE  Written(saving)[n][2] = ValueOf(n - 1)
  <2>1. CASE n = saving + 1
    <3>1. n - 1 = saving
      BY <1>1, <2>1
    <3> QED BY <1>4, <2>1, <3>1
  <2>2. CASE n # saving + 1
    <3>1. n \in 2 .. Len(file) /\ n \in 1 .. Len(file)
      BY <1>1, <1>4, <1>5, <2>2
    <3> QED BY <1>2, <1>4, <2>2, <3>1
  <2> QED BY <2>1, <2>2
<1> QED BY <1>4, <1>5, <1>6, <1>7

\* The power goes while a key is written.
LEMMA TornStep ==
    ASSUME BookInv, "deleted" \notin risks, "cut" \in risks', saving # ABSENT,
           file' \in Torn(Written(saving), CutContacts(Written(saving))),
           entries' = [i \in 1 .. MaxContacts |-> NoEntry], count' = -1,
           saving' = ABSENT, added' = added
    PROVE  BookInv'
<1>1. /\ Ordered(file) /\ Len(file) \in Nat /\ MaxContacts \in Nat
      /\ count \in 0 .. MaxContacts /\ count \in Nat
      /\ entries \in [1 .. MaxContacts -> Entry]
      /\ saving \in BookKeys /\ saving \in Nat /\ saving <= Len(file) /\ saving <= 2 * count
  BY BookAssumption DEF BookInv, BookType, BookKeys, Ordered
<1>2. /\ Len(file) <= 2 * count + 1
      /\ \A n \in 2 .. Len(file) : file[n][2] = ValueOf(n - 1)
      /\ saving # 0 => CountIn(file) = count
  BY <1>1, BookAssumption DEF BookInv, Growing
<1>3. /\ Ordered(Written(saving)) /\ Len(Written(saving)) \in Nat /\ Len(Written(saving)) <= 2 * count + 1
      /\ Len(Written(saving)) # 0 /\ CountIn(Written(saving)) = count
      /\ \A n \in 2 .. Len(Written(saving)) : Written(saving)[n][2] = ValueOf(n - 1)
  BY WrittenInOrder
<1>4. /\ Ordered(file') /\ Len(file') \in Nat /\ Len(file') <= Len(Written(saving))
      /\ \A n \in 1 .. Len(file') - 1 : file'[n] = Written(saving)[n]
      /\ \A n \in 2 .. Len(file') :
            file'[n][2] \in {Written(saving)[n][2], EMPTY, CUT, Written(saving)[n - 1][2]}
      /\ Len(file') > 1 => CountIn(file') = count
      /\ CountIn(file') \in 0 .. MaxContacts
  <2>1. /\ Ordered(file') /\ Len(file') <= Len(Written(saving))
        /\ \A n \in 1 .. Len(file') - 1 : file'[n] = Written(saving)[n]
        /\ \A n \in 2 .. Len(file') :
              file'[n][2] \in {Written(saving)[n][2], EMPTY, CUT, Written(saving)[n - 1][2]}
        /\ Len(file') > 1 => CountIn(file') = CountIn(Written(saving))
    BY <1>3, TornInOrder
  <2>2. CountIn(file') \in 0 .. MaxContacts
    BY <2>1, CountOfLines
  <2>3. Len(file') \in Nat
    BY <2>1 DEF Ordered
  <2> QED BY <1>3, <2>1, <2>2, <2>3
<1>5. ASSUME NEW i \in 1 .. CountIn(file')
      PROVE  Genuine(Contents(file')[i])
  <2> DEFINE entry == Contents(file')[i]
  <2>1. i \in 1 .. MaxContacts /\ i \in Nat \ {0} /\ entries[i] \in Entry
    BY <1>1, <1>4
  <2>2. /\ entry \in Entry
        /\ entry.name = IF 2 * i <= Len(file') THEN file'[2 * i][2] ELSE EMPTY
        /\ entry.address = IF 2 * i < Len(file') THEN file'[2 * i + 1][2] ELSE EMPTY
    BY <1>4, ContentsOfLines
  <2> HIDE DEF entry
  <2>3. Genuine(entries[i])
    BY <2>1 DEF BookInv, BookGenuine
  <2> SUFFICES ASSUME entry.name \in Names, entry.address \in Addresses
               PROVE  entry = entries[i]
    BY <2>3 DEF Genuine, entry
  <2>4. 2 * i < Len(file')
    BY <2>2, BookAssumption
  <2>5. /\ 2 * i <= Len(file') /\ 2 * i \in 1 .. Len(file') - 1 /\ 2 * i \in 2 .. Len(Written(saving))
        /\ 2 * i + 1 \in 2 .. Len(file') /\ 2 * i + 1 \in 2 .. Len(Written(saving))
        /\ (2 * i + 1) - 1 = 2 * i
    BY <1>3, <1>4, <2>1, <2>4
  <2>6. ValueOf(2 * i - 1) = entries[i].name /\ ValueOf(2 * i) = entries[i].address
    BY <2>1, ValuesOfContact
  <2>7. entry.name = Written(saving)[2 * i][2] /\ entry.name = entries[i].name
    BY <1>3, <1>4, <2>2, <2>5, <2>6
  <2>8. entry.address \in {Written(saving)[2 * i + 1][2], EMPTY, CUT, Written(saving)[2 * i][2]}
    BY <1>4, <2>2, <2>4, <2>5
  <2>9. entry.address = Written(saving)[2 * i + 1][2]
    BY <2>7, <2>8, BookAssumption
  <2>10. entry.address = entries[i].address
    BY <1>3, <2>5, <2>6, <2>9
  <2> QED BY <2>1, <2>2, <2>7, <2>10 DEF Entry
<1>6. BookType'
  <2>1. NoEntry \in Entry
    BY DEF NoEntry, Entry, Strings
  <2> QED BY <1>1, <1>4, <2>1 DEF BookType
<1>7. BookGenuine'
  <2>1. NoEntry.name \notin Names
    BY BookAssumption DEF NoEntry
  <2> QED BY <1>5, <2>1 DEF BookGenuine, Genuine
<1>8. Growing'
  <2>1. Len(file') <= 2 * CountIn(file') + 1
    BY <1>1, <1>3, <1>4
  <2> QED BY <2>1 DEF Growing
<1> QED BY <1>6, <1>7, <1>8 DEF BookInv

-----------------------------------------------------------------------------
(* The address book after a save that failed.                               *)

\* Lines whose values are of the kind of their keys, in any order.
TypedLine ==
    {line \in BookLine : line[2] \in (IF line[1] = 0 THEN 0 .. MaxContacts ELSE Strings)}

\* What is read of contact i, whatever the count.
Held(lines, i) ==
    [name |-> LoadText(lines, 2 * i - 1), address |-> LoadText(lines, 2 * i)]

\* A save that fails may leave a hole where its key should be, or little of the
\* file; but where both texts of a contact are, they are of a contact that was
\* added, except for the one contact that the save is writing.
HolesInv ==
    /\ file \in Seq(TypedLine) /\ entries \in [1 .. MaxContacts -> Entry]
    /\ count \in -1 .. MaxContacts /\ saving \in BookKeys \cup {ABSENT}
    /\ saving # ABSENT => count # -1 /\ saving <= 2 * count
    /\ \A i \in 1 .. MaxContacts : Genuine(entries[i])
    /\ \A i \in 1 .. MaxContacts :
          /\ saving # 2 * i => Genuine(Held(file, i))
          /\ saving = 2 * i /\ Held(file, i).name \in Names
                => Held(file, i).name = entries[i].name

\* The texts in a file that are a name or an address are those of the book.
Matches(lines) ==
    \A i \in 1 .. MaxContacts :
        /\ Held(lines, i).name \in Names => Held(lines, i).name = entries[i].name
        /\ Held(lines, i).address \in Addresses => Held(lines, i).address = entries[i].address

\* What is loaded for a key is of its kind.
LEMMA LoadIsTyped ==
    ASSUME NEW lines \in Seq(TypedLine), NEW key \in BookKeys
    PROVE  Load(lines, key) = ABSENT
             \/ Load(lines, key) \in (IF key = 0 THEN 0 .. MaxContacts ELSE Strings)
<1>1. Len(lines) \in Nat
  OBVIOUS
<1>2. FirstLine(lines, key, LineOf(lines, key))
  BY <1>1, LineOfIsFirst
<1>3. CASE LineOf(lines, key) = 0
  BY <1>3 DEF Load
<1>4. CASE LineOf(lines, key) # 0
  <2> DEFINE line == lines[LineOf(lines, key)]
  <2>1. LineOf(lines, key) \in 1 .. Len(lines) /\ line[1] = key
    BY <1>1, <1>2, <1>4 DEF FirstLine
  <2>2. line \in TypedLine
    BY <2>1, ElementOfSeq
  <2>3. Load(lines, key) = line[2]
    BY <1>4 DEF Load
  <2> HIDE DEF line
  <2>4. line[2] \in (IF line[1] = 0 THEN 0 .. MaxContacts ELSE Strings)
    BY <2>2 DEF TypedLine
  <2> QED BY <2>1, <2>3, <2>4
<1> QED BY <1>3, <1>4

\* So what is read of a contact is two texts, and the count is in its range.
LEMMA HeldIsEntry ==
    ASSUME NEW lines \in Seq(TypedLine)
    PROVE  /\ \A i \in 1 .. MaxContacts : Held(lines, i) \in Entry
           /\ CountIn(lines) \in 0 .. MaxContacts
<1>1. MaxContacts \in Nat
  BY BookAssumption
<1>2. ASSUME NEW key \in 1 .. 2 * MaxContacts
      PROVE  LoadText(lines, key) \in Strings
  <2>1. key \in BookKeys /\ key # 0
    BY <1>1 DEF BookKeys
  <2>2. EMPTY \in Strings
    BY DEF Strings
  <2>3. Load(lines, key) = ABSENT \/ Load(lines, key) \in Strings
    BY <2>1, LoadIsTyped
  <2> QED BY <2>2, <2>3 DEF LoadText
<1>3. ASSUME NEW i \in 1 .. MaxContacts
      PROVE  Held(lines, i) \in Entry
  <2>1. 2 * i - 1 \in 1 .. 2 * MaxContacts /\ 2 * i \in 1 .. 2 * MaxContacts
    BY <1>1
  <2>2. LoadText(lines, 2 * i - 1) \in Strings /\ LoadText(lines, 2 * i) \in Strings
    BY <1>2, <2>1
  <2> QED BY <2>2 DEF Held, Entry
<1>4. CountIn(lines) \in 0 .. MaxContacts
  <2>1. 0 \in BookKeys /\ 0 \in 0 .. MaxContacts
    BY <1>1 DEF BookKeys
  <2>2. Load(lines, 0) = ABSENT \/ Load(lines, 0) \in 0 .. MaxContacts
    BY <2>1, LoadIsTyped
  <2> QED BY <2>1, <2>2 DEF CountIn
<1> QED BY <1>3, <1>4

\* A file in order is one of typed lines, and what is read of a contact stands
\* in its two lines.
LEMMA OrderedIsTyped ==
    ASSUME NEW lines, Ordered(lines), Len(lines) <= 2 * MaxContacts + 1
    PROVE  /\ lines \in Seq(TypedLine)
           /\ \A i \in 1 .. MaxContacts :
                 /\ Held(lines, i).name = IF 2 * i <= Len(lines) THEN lines[2 * i][2] ELSE EMPTY
                 /\ Held(lines, i).address = IF 2 * i < Len(lines) THEN lines[2 * i + 1][2] ELSE EMPTY
<1>0. MaxContacts \in Nat
  BY BookAssumption
<1>1. Len(lines) \in Nat /\ lines \in Seq(BookLine) /\ MaxContacts \in Nat
  BY <1>0 DEF Ordered
<1>2. ASSUME NEW n \in 1 .. Len(lines)
      PROVE  lines[n] \in TypedLine
  <2>1. lines[n] \in BookLine
    BY <1>1, ElementOfSeq
  <2>2. /\ lines[n][1] = n - 1
        /\ lines[n][2] \in (IF n = 1 THEN 0 .. MaxContacts ELSE Strings)
    BY DEF Ordered
  <2>3. lines[n][1] = 0 <=> n = 1
    BY <1>1, <2>2
  <2> QED BY <2>1, <2>2, <2>3 DEF TypedLine
<1>3. lines \in Seq(TypedLine)
  <2>1. lines = [n \in 1 .. Len(lines) |-> lines[n]]
    BY <1>1
  <2> QED BY <1>1, <1>2, <2>1
<1>4. ASSUME NEW k \in Nat \ {0}
      PROVE  LoadText(lines, k) = IF k < Len(lines) THEN lines[k + 1][2] ELSE EMPTY
  <2>1. k < Len(lines) => lines[k + 1][2] \in Strings
    <3>1. k < Len(lines) => k + 1 \in 1 .. Len(lines) /\ k + 1 # 1
      BY <1>1
    <3> QED BY <3>1 DEF Ordered
  <2>2. ABSENT \notin Strings
    BY BookAssumption DEF Strings
  <2> QED BY <2>1, <2>2, LineOfKey DEF LoadText
<1>5. ASSUME NEW i \in 1 .. MaxContacts
      PROVE  /\ LoadText(lines, 2 * i - 1)
                   = IF 2 * i <= Len(lines) THEN lines[2 * i][2] ELSE EMPTY
             /\ LoadText(lines, 2 * i)
                   = IF 2 * i < Len(lines) THEN lines[2 * i + 1][2] ELSE EMPTY
  <2>1. /\ 2 * i - 1 \in Nat \ {0} /\ (2 * i - 1) + 1 = 2 * i /\ 2 * i \in Nat \ {0}
        /\ 2 * i - 1 < Len(lines) <=> 2 * i <= Len(lines)
    BY <1>1
  <2> QED BY <1>4, <2>1
<1> QED BY <1>3, <1>5 DEF Held

\* Loading a book with holes shows what the file is read to hold.
LEMMA HolesLoad == ASSUME HolesInv, EnsureLoaded PROVE HolesInv'
<1>1. /\ file \in Seq(TypedLine) /\ MaxContacts \in Nat /\ CountIn(file) \in 0 .. MaxContacts
      /\ file' = file /\ added' = added /\ count' = CountIn(file)
      /\ \A i \in 1 .. MaxContacts : Held(file, i) \in Entry
  <2>1. file \in Seq(TypedLine)
    BY DEF HolesInv
  <2>2. MaxContacts \in Nat
    BY BookAssumption
  <2>3. CountIn(file) \in 0 .. MaxContacts /\ \A i \in 1 .. MaxContacts : Held(file, i) \in Entry
    BY <2>1, HeldIsEntry
  <2> QED BY <2>1, <2>2, <2>3 DEF EnsureLoaded
<1>2. saving = ABSENT /\ saving' = ABSENT
  BY DEF HolesInv, EnsureLoaded
<1>3. ASSUME NEW i \in 1 .. MaxContacts
      PROVE  entries'[i] = Held(file, i) \/ entries'[i] = NoEntry
  <2>1. entries'[i] = IF i <= CountIn(file) THEN Contents(file)[i] ELSE NoEntry
    BY DEF EnsureLoaded
  <2>2. i <= CountIn(file) => i \in 1 .. CountIn(file)
    BY <1>1
  <2>3. i <= CountIn(file) => Contents(file)[i] = Held(file, i)
    BY <2>2 DEF Contents, Held
  <2> QED BY <2>1, <2>3
<1>4. NoEntry \in Entry /\ Genuine(NoEntry)
  BY BookAssumption DEF NoEntry, Entry, Strings, Genuine
<1>5. ABSENT \notin Int
  BY AbsentIsNoNumber
<1>6. \A i \in 1 .. MaxContacts : saving # 2 * i
  BY <1>1, <1>2, <1>5
<1>7. \A i \in 1 .. MaxContacts : Genuine(Held(file, i))
  BY <1>6 DEF HolesInv
<1>8. entries' \in [1 .. MaxContacts -> Entry]
  <2>1. entries' = [i \in 1 .. MaxContacts |-> entries'[i]]
    BY DEF EnsureLoaded
  <2> QED BY <1>1, <1>3, <1>4, <2>1
<1>9. \A i \in 1 .. MaxContacts : Genuine(entries'[i])
  BY <1>3, <1>4, <1>7
<1>10. count' \in -1 .. MaxContacts
  BY <1>1
<1> QED BY <1>1, <1>2, <1>6, <1>7, <1>8, <1>9, <1>10 DEF HolesInv, Genuine, Held, LoadText

\* A contact that is added is one that was added.
LEMMA HolesAdd ==
    ASSUME HolesInv, NEW name \in Names, NEW address \in Addresses, Add(name, address)
    PROVE  HolesInv'
<1> DEFINE new == [name |-> name, address |-> address]
<1>1. /\ file' = file /\ added' = added \cup {new} /\ MaxContacts \in Nat
      /\ count \in 0 .. MaxContacts - 1 /\ saving = ABSENT /\ saving' = 0 /\ count' = count + 1
      /\ entries' = [entries EXCEPT ![count + 1] = new]
      /\ entries \in [1 .. MaxContacts -> Entry]
  <2>1. MaxContacts \in Nat
    BY BookAssumption
  <2>2. entries \in [1 .. MaxContacts -> Entry]
    BY DEF HolesInv
  <2> QED BY <2>1, <2>2 DEF Add
<1>2. new \in Entry
  BY DEF Entry, Strings
<1> HIDE DEF new
<1>3. /\ entries' \in [1 .. MaxContacts -> Entry]
      /\ \A i \in 1 .. MaxContacts : entries'[i] = entries[i] \/ entries'[i] = new
  BY <1>1, <1>2
<1>4. \A i \in 1 .. MaxContacts : saving # 2 * i /\ saving' # 2 * i
  BY <1>1, AbsentIsNoNumber
<1>5. \A i \in 1 .. MaxContacts : Genuine(entries[i]) /\ Genuine(Held(file, i))
  BY <1>4 DEF HolesInv
<1>6. /\ count' \in -1 .. MaxContacts /\ count' # -1 /\ saving' <= 2 * count'
      /\ saving' \in BookKeys
  BY <1>1 DEF BookKeys
<1>7. \A i \in 1 .. MaxContacts :
          entries'[i].name \in Names /\ entries'[i].address \in Addresses
              => entries'[i] \in added'
  BY <1>1, <1>3, <1>5 DEF Genuine
<1>8. \A i \in 1 .. MaxContacts :
          Held(file, i).name \in Names /\ Held(file, i).address \in Addresses
              => Held(file, i) \in added'
  BY <1>1, <1>5 DEF Genuine
<1>9. file' \in Seq(TypedLine) /\ \A i \in 1 .. MaxContacts : Held(file, i)' = Held(file, i)
  BY <1>1 DEF HolesInv, Held, LoadText
<1> QED BY <1>3, <1>4, <1>6, <1>7, <1>8, <1>9 DEF HolesInv, Genuine

\* A key that is written over a file of typed lines, and what is read then.
LEMMA KeyIsHeld ==
    ASSUME NEW lines \in Seq(TypedLine), MaxContacts \in Nat,
           NEW k \in BookKeys, NEW v \in (IF k = 0 THEN 0 .. MaxContacts ELSE Strings)
    PROVE  /\ Save(lines, k, v) \in Seq(TypedLine)
           /\ \A i \in 1 .. MaxContacts :
                 /\ Held(Save(lines, k, v), i).name
                       = IF k = 2 * i - 1 THEN v ELSE Held(lines, i).name
                 /\ Held(Save(lines, k, v), i).address
                       = IF k = 2 * i THEN v ELSE Held(lines, i).address
<1> DEFINE new == Save(lines, k, v)
<1>1. <<k, v>> \in TypedLine
  <2> DEFINE line == <<k, v>>
  <2>1. line \in BookLine /\ line[1] = k /\ line[2] = v
    BY DEF BookLine
  <2> HIDE DEF line
  <2>2. line \in TypedLine
    BY <2>1 DEF TypedLine
  <2> QED BY <2>2 DEF line
<1>2. /\ new \in Seq(TypedLine) /\ Load(new, k) = v
      /\ \A j : j # k => Load(new, j) = Load(lines, j)
  BY <1>1, SavedIsLoaded
<1>3. k # 0 => v # ABSENT
  BY BookAssumption DEF Strings
<1>4. /\ k # 0 => LoadText(new, k) = v
      /\ \A j : j # k => LoadText(new, j) = LoadText(lines, j)
  BY <1>2, <1>3 DEF LoadText
<1> HIDE DEF new
<1>5. ASSUME NEW i \in 1 .. MaxContacts
      PROVE  /\ Held(new, i).name = IF k = 2 * i - 1 THEN v ELSE Held(lines, i).name
             /\ Held(new, i).address = IF k = 2 * i THEN v ELSE Held(lines, i).address
  <2>1. 2 * i - 1 # 0 /\ 2 * i # 0
    OBVIOUS
  <2> QED BY <1>4, <2>1 DEF Held
<1> QED BY <1>2, <1>5 DEF new

\* Writing a key of the book keeps names and addresses together.
LEMMA HolesSave ==
    ASSUME HolesInv, SaveKey, file' = Written(saving)
    PROVE  HolesInv'
<1> DEFINE value == ValueOf(saving)
<1>1. /\ file \in Seq(TypedLine) /\ MaxContacts \in Nat
      /\ count \in 0 .. MaxContacts /\ entries \in [1 .. MaxContacts -> Entry]
      /\ saving # ABSENT /\ saving \in BookKeys /\ saving \in Nat /\ saving <= 2 * count
      /\ saving' = IF saving = 2 * count THEN ABSENT ELSE saving + 1
      /\ file' = Save(file, saving, value)
      /\ entries' = entries /\ count' = count /\ added' = added
  <2>1. MaxContacts \in Nat
    BY BookAssumption
  <2>2. /\ file \in Seq(TypedLine) /\ entries \in [1 .. MaxContacts -> Entry]
        /\ saving # ABSENT /\ saving \in 0 .. 2 * MaxContacts
        /\ count \in -1 .. MaxContacts /\ count # -1 /\ saving <= 2 * count
    BY DEF HolesInv, BookKeys, SaveKey
  <2>3. count \in 0 .. MaxContacts /\ saving \in Nat
    BY <2>1, <2>2
  <2>4. file' = Save(file, saving, value)
    BY DEF Written
  <2> QED BY <2>1, <2>2, <2>3, <2>4 DEF SaveKey, BookKeys
<1>2. value \in (IF saving = 0 THEN 0 .. MaxContacts ELSE Strings)
  BY <1>1, ValueIsText DEF BookKeys
<1>3. \A i \in 1 .. MaxContacts :
          /\ saving = 2 * i - 1 => value = entries[i].name
          /\ saving = 2 * i => value = entries[i].address
  BY ValuesOfContact
<1> HIDE DEF value
<1>4. /\ file' \in Seq(TypedLine)
      /\ \A i \in 1 .. MaxContacts :
            /\ Held(file', i).name = IF saving = 2 * i - 1 THEN value ELSE Held(file, i).name
            /\ Held(file', i).address = IF saving = 2 * i THEN value ELSE Held(file, i).address
            /\ Held(file', i) \in Entry /\ Held(file, i) \in Entry
  <2> DEFINE new == Save(file, saving, value)
  <2>1. /\ new \in Seq(TypedLine)
        /\ \A i \in 1 .. MaxContacts :
              /\ Held(new, i).name = IF saving = 2 * i - 1 THEN value ELSE Held(file, i).name
              /\ Held(new, i).address = IF saving = 2 * i THEN value ELSE Held(file, i).address
    BY <1>1, <1>2, KeyIsHeld
  <2>2. file' = new
    BY <1>1
  <2> HIDE DEF new
  <2>3. \A i \in 1 .. MaxContacts : Held(new, i) \in Entry
    BY <2>1, HeldIsEntry
  <2>4. \A i \in 1 .. MaxContacts : Held(file, i) \in Entry
    BY <1>1, HeldIsEntry
  <2> QED BY <2>1, <2>2, <2>3, <2>4
<1>5. \A i \in 1 .. MaxContacts : saving' = 2 * i => saving = 2 * i - 1
  BY <1>1, AbsentIsNoNumber
<1>6. ASSUME NEW i \in 1 .. MaxContacts
      PROVE  /\ saving' # 2 * i => Genuine(Held(file', i))
             /\ saving' = 2 * i /\ Held(file', i).name \in Names
                   => Held(file', i).name = entries[i].name
  <2>1. saving' = 2 * i => Held(file', i).name = entries[i].name
    BY <1>3, <1>4, <1>5
  <2>2. CASE saving = 2 * i
    <3>1. Held(file', i).address = entries[i].address /\ Held(file', i).name = Held(file, i).name
      BY <1>1, <1>3, <1>4, <2>2
    <3>2. Held(file, i).name \in Names => Held(file, i).name = entries[i].name
      BY <2>2 DEF HolesInv
    <3>3. Held(file', i).name \in Names => Held(file', i) = entries[i]
      BY <1>1, <1>4, <3>1, <3>2 DEF Entry
    <3>4. Genuine(entries[i])
      BY DEF HolesInv
    <3> QED BY <2>1, <3>3, <3>4 DEF Genuine
  <2>3. CASE saving = 2 * i - 1
    <3>1. saving' = 2 * i
      <4>1. saving # 2 * count
        BY <1>1, <2>3
      <4> QED BY <1>1, <2>3, <4>1
    <3> QED BY <2>1, <3>1
  <2>4. CASE saving # 2 * i /\ saving # 2 * i - 1
    <3>1. Held(file', i) = Held(file, i)
      BY <1>4, <2>4 DEF Entry
    <3>2. Genuine(Held(file, i))
      BY <2>4 DEF HolesInv
    <3> QED BY <2>1, <3>1, <3>2
  <2> QED BY <2>2, <2>3, <2>4
<1>7. saving' # ABSENT => saving' \in BookKeys /\ saving' <= 2 * count
  <2> SUFFICES ASSUME saving' # ABSENT
               PROVE  saving' \in BookKeys /\ saving' <= 2 * count
    OBVIOUS
  <2>1. saving' = saving + 1 /\ saving # 2 * count
    BY <1>1
  <2> QED BY <1>1, <2>1 DEF BookKeys
<1>8. /\ saving' \in BookKeys \cup {ABSENT} /\ count' \in -1 .. MaxContacts
      /\ saving' # ABSENT => count' # -1 /\ saving' <= 2 * count'
  BY <1>1, <1>7
<1>9. \A i \in 1 .. MaxContacts : Genuine(entries[i])
  BY DEF HolesInv
<1>10. /\ \A e : Genuine(e)' <=> Genuine(e)
       /\ \A i \in 1 .. MaxContacts : Held(file, i)' = Held(file', i)
  BY <1>1 DEF Genuine, Held, LoadText
<1> QED BY <1>1, <1>4, <1>6, <1>8, <1>9, <1>10 DEF HolesInv

\* The program ends between two calls.
LEMMA HolesEnd ==
    ASSUME HolesInv, saving = ABSENT,
           entries' = [i \in 1 .. MaxContacts |-> NoEntry], count' = -1,
           saving' = ABSENT, added' = added, file' = file
    PROVE  HolesInv'
<1>1. NoEntry \in Entry /\ NoEntry.name \notin Names /\ MaxContacts \in Nat
  BY BookAssumption DEF NoEntry, Entry, Strings
<1>2. \A i \in 1 .. MaxContacts : saving # 2 * i
  BY <1>1, AbsentIsNoNumber
<1>3. \A i \in 1 .. MaxContacts : Genuine(Held(file, i))
  BY <1>2 DEF HolesInv
<1>4. file \in Seq(TypedLine) /\ entries' \in [1 .. MaxContacts -> Entry]
  BY <1>1 DEF HolesInv
<1>5. \A i \in 1 .. MaxContacts : entries'[i].name \notin Names
  BY <1>1
<1>6. count' \in -1 .. MaxContacts
  BY <1>1
<1> QED BY <1>2, <1>3, <1>4, <1>5, <1>6 DEF HolesInv, Genuine, Held, LoadText

\* A file in order whose texts are those of the book, or lost their ends, shows
\* no name and no address but those of the book.
LEMMA TextsMatch ==
    ASSUME NEW lines, Ordered(lines), MaxContacts \in Nat, Len(lines) <= 2 * MaxContacts + 1,
           entries \in [1 .. MaxContacts -> Entry], count \in Nat,
           \A i \in 1 .. MaxContacts : Straight(entries[i]),
           \A n \in 2 .. Len(lines) : lines[n][2] \in {ValueOf(n - 1), EMPTY, CUT, ValueOf(n - 2)}
    PROVE  lines \in Seq(TypedLine) /\ Matches(lines)
<1>1. /\ lines \in Seq(TypedLine) /\ Len(lines) \in Nat
      /\ \A i \in 1 .. MaxContacts :
            /\ Held(lines, i).name = IF 2 * i <= Len(lines) THEN lines[2 * i][2] ELSE EMPTY
            /\ Held(lines, i).address = IF 2 * i < Len(lines) THEN lines[2 * i + 1][2] ELSE EMPTY
  <2>1. lines \in Seq(BookLine)
    BY DEF Ordered
  <2>2. Len(lines) \in Nat
    BY <2>1
  <2> QED BY <2>2, OrderedIsTyped, Zenon
<1>2. EMPTY \notin Names /\ CUT \notin Names /\ EMPTY \notin Addresses /\ CUT \notin Addresses
  BY BookAssumption
<1>3. count \notin Names
  BY BookAssumption
<1>4. ASSUME NEW i \in 1 .. MaxContacts
      PROVE  ValueOf(2 * i - 2) \notin Names
  <2>1. CASE i = 1
    <3>1. 2 * i - 2 = 0
      BY <2>1
    <3> QED BY <1>3, <3>1 DEF ValueOf
  <2>2. CASE i # 1
    <3>1. i - 1 \in 1 .. MaxContacts /\ 2 * (i - 1) = 2 * i - 2
      BY <2>2
    <3>2. ValueOf(2 * (i - 1)) = entries[i - 1].address
      BY <3>1, ValuesOfContact
    <3> QED BY <3>1, <3>2 DEF Straight
  <2> QED BY <2>1, <2>2
<1>5. ASSUME NEW i \in 1 .. MaxContacts
      PROVE  Held(lines, i).name \in Names => Held(lines, i).name = entries[i].name
  <2> SUFFICES ASSUME Held(lines, i).name \in Names
               PROVE  Held(lines, i).name = entries[i].name
    OBVIOUS
  <2>1. 2 * i <= Len(lines) /\ Held(lines, i).name = lines[2 * i][2]
    BY <1>1, <1>2
  <2>2. 2 * i \in 2 .. Len(lines)
    BY <1>1, <2>1
  <2>3. lines[2 * i][2] \in {ValueOf(2 * i - 1), EMPTY, CUT, ValueOf(2 * i - 2)}
    BY <2>2
  <2>4. lines[2 * i][2] = ValueOf(2 * i - 1)
    BY <1>2, <1>4, <2>1, <2>3
  <2> QED BY <2>1, <2>4, ValuesOfContact
<1>6. ASSUME NEW i \in 1 .. MaxContacts
      PROVE  Held(lines, i).address \in Addresses => Held(lines, i).address = entries[i].address
  <2> SUFFICES ASSUME Held(lines, i).address \in Addresses
               PROVE  Held(lines, i).address = entries[i].address
    OBVIOUS
  <2>1. 2 * i < Len(lines) /\ Held(lines, i).address = lines[2 * i + 1][2]
    BY <1>1, <1>2
  <2>2. 2 * i + 1 \in 2 .. Len(lines) /\ (2 * i + 1) - 1 = 2 * i /\ (2 * i + 1) - 2 = 2 * i - 1
    BY <1>1, <2>1
  <2>3. lines[2 * i + 1][2] \in {ValueOf(2 * i), EMPTY, CUT, ValueOf(2 * i - 1)}
    BY <2>2
  <2>4. ValueOf(2 * i - 1) \notin Addresses
    BY ValuesOfContact DEF Straight
  <2>5. lines[2 * i + 1][2] = ValueOf(2 * i)
    BY <1>2, <2>1, <2>3, <2>4
  <2> QED BY <2>1, <2>5, ValuesOfContact
<1> QED BY <1>1, <1>5, <1>6 DEF Matches

\* The save of a key that fails, in a book that was sound until then.
LEMMA HolesStart ==
    ASSUME BookInv, risks = {}, SaveKey, file' \in Unwritten(saving)
    PROVE  HolesInv'
<1> DEFINE value == ValueOf(saving)
<1>1. /\ Ordered(file) /\ Len(file) \in Nat /\ MaxContacts \in Nat
      /\ count \in 0 .. MaxContacts /\ count \in Nat /\ count # -1
      /\ entries \in [1 .. MaxContacts -> Entry]
      /\ saving # ABSENT /\ saving \in BookKeys /\ saving \in Nat /\ saving <= 2 * count
      /\ saving' = IF saving = 2 * count THEN ABSENT ELSE saving + 1
      /\ entries' = entries /\ count' = count /\ added' = added
  <2>1. MaxContacts \in Nat
    BY BookAssumption
  <2>0. Ordered(file) /\ Len(file) \in Nat
    BY DEF BookInv, BookType, Ordered
  <2>2. /\ Ordered(file) /\ Len(file) \in Nat
        /\ entries \in [1 .. MaxContacts -> Entry]
        /\ saving # ABSENT /\ saving \in 0 .. 2 * MaxContacts
        /\ count \in -1 .. MaxContacts /\ count # -1 /\ saving <= 2 * count
    BY <2>0 DEF BookInv, BookType, BookKeys, SaveKey
  <2>3. count \in 0 .. MaxContacts /\ count \in Nat /\ saving \in Nat
    BY <2>1, <2>2
  <2> QED BY <2>1, <2>2, <2>3 DEF SaveKey, BookKeys
<1>2. /\ Len(file) <= 2 * count + 1
      /\ \A n \in 2 .. Len(file) : file[n][2] = ValueOf(n - 1)
      /\ \A i \in 1 .. MaxContacts : Straight(entries[i]) /\ Genuine(entries[i])
  BY <1>1 DEF BookInv, Growing, BookStraight, BookGenuine
<1>3. 2 * count + 1 <= 2 * MaxContacts + 1
  BY <1>1
<1>4. value \in (IF saving = 0 THEN 0 .. MaxContacts ELSE Strings)
  BY <1>1, ValueIsText DEF BookKeys
<1>5. \A i \in 1 .. MaxContacts :
          /\ saving = 2 * i - 1 => value = entries[i].name
          /\ saving = 2 * i => value = entries[i].address
  BY ValuesOfContact
<1>6. ASSUME file' = file
      PROVE  file' \in Seq(TypedLine) /\ Matches(file')
  <2>1. Len(file) <= 2 * MaxContacts + 1
    BY <1>1, <1>2, <1>3
  <2>2. file \in Seq(TypedLine) /\ Matches(file)
    BY <1>1, <1>2, <2>1, TextsMatch
  <2> QED BY <1>6, <2>2
<1>7. ASSUME file' = <<<<saving, value>>>>
      PROVE  file' \in Seq(TypedLine) /\ Matches(file')
  <2> HIDE DEF value
  <2>1. /\ <<>> \in Seq(TypedLine) /\ Ordered(<<>>) /\ Len(<<>>) = 0
    BY EmptySeq DEF Ordered
  <2>2. LineOf(<<>>, saving) = 0
    BY <1>1, <2>1, LineOfKey
  <2>3. Save(<<>>, saving, value) = <<<<saving, value>>>>
    BY <2>2 DEF Save
  <2>4. \A i \in 1 .. MaxContacts : Held(<<>>, i).name = EMPTY /\ Held(<<>>, i).address = EMPTY
    BY <1>1, <2>1, OrderedIsTyped
  <2>5. /\ file' \in Seq(TypedLine)
        /\ \A i \in 1 .. MaxContacts :
              /\ Held(file', i).name = IF saving = 2 * i - 1 THEN value ELSE EMPTY
              /\ Held(file', i).address = IF saving = 2 * i THEN value ELSE EMPTY
    <3> DEFINE none == <<>>
               new == Save(none, saving, value)
    <3>0. none \in Seq(TypedLine)
      BY <2>1
    <3> HIDE DEF none
    <3>1. /\ new \in Seq(TypedLine)
          /\ \A i \in 1 .. MaxContacts :
                /\ Held(new, i).name = IF saving = 2 * i - 1 THEN value ELSE Held(none, i).name
                /\ Held(new, i).address = IF saving = 2 * i THEN value ELSE Held(none, i).address
      BY <1>1, <1>4, <3>0, KeyIsHeld
    <3>2. file' = new
      BY <1>7, <2>3 DEF none
    <3> HIDE DEF new
    <3> QED BY <2>4, <3>1, <3>2 DEF none
  <2>6. EMPTY \notin Names /\ EMPTY \notin Addresses
    BY BookAssumption
  <2>7. Matches(file')
    BY <1>5, <2>5, <2>6 DEF Matches
  <2> QED BY <2>5, <2>7
<1>8. ASSUME file' \in Torn(Written(saving), CutContacts(Written(saving)))
      PROVE  file' \in Seq(TypedLine) /\ Matches(file')
  <2>1. /\ Ordered(Written(saving)) /\ Len(Written(saving)) \in Nat
        /\ Len(Written(saving)) <= 2 * count + 1
        /\ \A n \in 2 .. Len(Written(saving)) : Written(saving)[n][2] = ValueOf(n - 1)
        /\ Len(Written(saving)) # 0 /\ CountIn(Written(saving)) = count
    BY <1>1, WrittenInOrder
  <2>2. /\ Ordered(file') /\ Len(file') <= Len(Written(saving))
        /\ \A n \in 2 .. Len(file') :
              file'[n][2] \in {Written(saving)[n][2], EMPTY, CUT, Written(saving)[n - 1][2]}
    BY <1>8, <2>1, TornInOrder
  <2>3. Written(saving)[1][2] = count
    BY <2>1, CountOfLines
  <2>4. ValueOf(0) = count
    BY DEF ValueOf
  <2>5. \A n \in 1 .. Len(Written(saving)) : Written(saving)[n][2] = ValueOf(n - 1)
    <3>1. \A n \in 1 .. Len(Written(saving)) : n = 1 \/ n \in 2 .. Len(Written(saving))
      BY <2>1
    <3>2. 1 - 1 = 0
      OBVIOUS
    <3> QED BY <2>1, <2>3, <2>4, <3>1, <3>2
  <2>6. Len(file') \in Nat /\ Len(file') <= 2 * MaxContacts + 1
    <3>1. Len(file') \in Nat
      BY <2>2 DEF Ordered
    <3> QED BY <1>1, <1>3, <2>1, <2>2, <3>1
  <2>7. ASSUME NEW n \in 2 .. Len(file')
        PROVE  file'[n][2] \in {ValueOf(n - 1), EMPTY, CUT, ValueOf(n - 2)}
    <3>1. /\ n \in 1 .. Len(Written(saving)) /\ n - 1 \in 1 .. Len(Written(saving))
          /\ (n - 1) - 1 = n - 2
      BY <2>1, <2>2, <2>6
    <3> QED BY <2>2, <2>5, <3>1
  <2>8. file' \in Seq(TypedLine) /\ Matches(file')
    BY <1>1, <1>2, <2>2, <2>6, <2>7, TextsMatch
  <2> QED BY <2>8
<1>9. file' \in Seq(TypedLine) /\ Matches(file')
  BY <1>6, <1>7, <1>8 DEF Unwritten
<1>10. \A i \in 1 .. MaxContacts : Held(file', i) \in Entry /\ entries[i] \in Entry
  BY <1>1, <1>9, HeldIsEntry
<1>11. ASSUME NEW i \in 1 .. MaxContacts
       PROVE  /\ Genuine(Held(file', i))
              /\ Held(file', i).name \in Names => Held(file', i).name = entries[i].name
  <2>1. Held(file', i).name \in Names /\ Held(file', i).address \in Addresses
          => Held(file', i) = entries[i]
    BY <1>9, <1>10 DEF Matches, Entry
  <2>2. Held(file', i).name \in Names => Held(file', i).name = entries[i].name
    BY <1>9 DEF Matches
  <2> QED BY <1>2, <2>1, <2>2 DEF Genuine
<1>12. saving' # ABSENT => saving' \in BookKeys /\ saving' <= 2 * count
  <2> SUFFICES ASSUME saving' # ABSENT
               PROVE  saving' \in BookKeys /\ saving' <= 2 * count
    OBVIOUS
  <2>1. saving' = saving + 1 /\ saving # 2 * count
    BY <1>1
  <2> QED BY <1>1, <2>1 DEF BookKeys
<1>13. /\ saving' \in BookKeys \cup {ABSENT} /\ count' \in -1 .. MaxContacts
       /\ saving' # ABSENT => count' # -1 /\ saving' <= 2 * count'
  BY <1>1, <1>12
<1>14. /\ \A e : Genuine(e)' <=> Genuine(e)
       /\ \A i \in 1 .. MaxContacts : Held(file, i)' = Held(file', i)
  BY <1>1 DEF Genuine, Held, LoadText
<1> QED BY <1>1, <1>2, <1>9, <1>11, <1>13, <1>14 DEF HolesInv

-----------------------------------------------------------------------------
\* What is shown of a book of either kind was added.
LEMMA VisibleWasAdded ==
    ASSUME BookInv \/ HolesInv, NEW i \in DOMAIN Visible
    PROVE  Genuine(Visible[i])
<1>1. MaxContacts \in Nat
  BY BookAssumption
<1>2. CASE count = -1
  <2>1. Visible = Contents(file) /\ DOMAIN Visible = 1 .. CountIn(file)
    BY <1>2 DEF Visible, Contents
  <2>2. CASE BookInv
    BY <1>2, <2>1, <2>2 DEF BookInv, BookGenuine
  <2>3. CASE HolesInv
    <3>1. CountIn(file) \in 0 .. MaxContacts
      BY <2>3, HeldIsEntry DEF HolesInv
    <3>2. i \in 1 .. MaxContacts /\ Visible[i] = Held(file, i)
      BY <1>1, <2>1, <3>1 DEF Contents, Held
    <3>3. saving = ABSENT
      BY <1>2, <2>3 DEF HolesInv
    <3>4. saving # 2 * i
      BY <1>1, <3>2, <3>3, AbsentIsNoNumber
    <3> QED BY <2>3, <3>2, <3>4 DEF HolesInv
  <2> QED BY <2>2, <2>3
<1>3. CASE count # -1
  <2>1. /\ entries \in [1 .. MaxContacts -> Entry] /\ count \in -1 .. MaxContacts
        /\ \A j \in 1 .. MaxContacts : Genuine(entries[j])
    BY DEF BookInv, BookType, BookGenuine, HolesInv
  <2>2. count \in 0 .. MaxContacts /\ Visible = SubSeq(entries, 1, count)
    BY <1>1, <1>3, <2>1 DEF Visible, Book
  <2>3. /\ Visible \in Seq(Entry) /\ Len(Visible) = count
        /\ \A j \in 1 .. count : Visible[j] = entries[j]
    BY <2>1, <2>2, ListOfEntries
  <2>4. i \in 1 .. count /\ i \in 1 .. MaxContacts
    BY <1>1, <2>2, <2>3
  <2> QED BY <2>1, <2>3, <2>4
<1> QED BY <1>2, <1>3

\* The invariant of the book: when a save has failed, and nothing else
\* happened, there may be holes.
AnyBook ==
    /\ steady => risks \subseteq {"deleted"}
    /\ AtMostOneRisk => IF "unsaved" \in risks THEN HolesInv ELSE BookInv

\* A step of a book in which no save has failed, nor does in the step.
LEMMA SoundStep ==
    ASSUME BookInv, BookNext, "unsaved" \notin risks', AtMostOneRisk'
    PROVE  BookInv' /\ ("cut" \notin risks' => Visible' = Visible \/ TheBook!Next)
<1>1. CASE EnsureLoaded
  BY <1>1, EnsureLoadedStep
<1>2. CASE SaveKey
  <2>1. file' = Written(saving) /\ risks' = risks
    BY <1>2 DEF SaveKey, KeySaved
  <2> QED BY <1>2, <2>1, SaveKeyStep
<1>3. CASE Exit
  <2>1. /\ saving = ABSENT /\ entries' = [i \in 1 .. MaxContacts |-> NoEntry] /\ count' = -1
        /\ saving' = ABSENT /\ added' = added /\ file' = file /\ risks' = risks
    BY <1>3 DEF Exit
  <2>2. "deleted" \notin risks \/ "cut" \notin risks
    BY <2>1 DEF AtMostOneRisk
  <2> QED BY <2>1, <2>2, EndStep
<1>4. CASE PowerFailure
  <2>1. /\ entries' = [i \in 1 .. MaxContacts |-> NoEntry] /\ count' = -1
        /\ saving' = ABSENT /\ added' = added
        /\ risks' = IF saving = ABSENT THEN risks ELSE risks \cup {"cut"}
    BY <1>4 DEF PowerFailure
  <2>2. saving = ABSENT \/ "cut" \in risks'
    BY <2>1
  <2>3. risks \subseteq risks'
    BY <2>1
  <2>4. "deleted" \notin risks' \/ "cut" \notin risks'
    BY DEF AtMostOneRisk
  <2>5. "deleted" \notin risks \/ (saving = ABSENT /\ "cut" \notin risks)
    BY <2>2, <2>3, <2>4
  <2>6. CASE UNCHANGED file
    BY <2>1, <2>2, <2>3, <2>5, <2>6, EndStep
  <2>7. CASE saving # ABSENT /\ file' \in Torn(Written(saving), CutContacts(Written(saving)))
    <3>1. "cut" \in risks' /\ "deleted" \notin risks
      BY <2>2, <2>3, <2>4, <2>7
    <3> QED BY <2>1, <2>7, <3>1, TornStep
  <2> QED BY <1>4, <2>6, <2>7 DEF PowerFailure
<1>5. ASSUME NEW name \in Names, NEW address \in Addresses, Add(name, address)
      PROVE  BookInv' /\ TheBook!Next
  <2>1. [name |-> name, address |-> address] \in Contact
    BY DEF Contact
  <2>2. /\ BookInv' /\ Visible' = Append(Visible, [name |-> name, address |-> address])
        /\ Len(Visible) < MaxContacts
    BY <1>5, AddStep
  <2> QED BY <2>1, <2>2 DEF TheBook!Next, TheBook!Add
<1>6. ASSUME NEW index \in 1 .. MaxContacts, Delete(index)
      PROVE  BookInv' /\ TheBook!Next
  <2>1. BookInv' /\ index \in DOMAIN Visible /\ Visible' = RemoveAt(Visible, index)
    BY <1>6, DeleteStep
  <2>2. TheBook!Delete(index)
    BY <2>1 DEF TheBook!Delete, TheBook!RemoveAt, RemoveAt
  <2> QED BY <2>1, <2>2 DEF TheBook!Next
<1> QED BY <1>1, <1>2, <1>3, <1>4, <1>5, <1>6 DEF BookNext

\* A step of a book with holes, in which nothing else befalls it.
LEMMA HolesStep ==
    ASSUME HolesInv, BookNext, "unsaved" \in risks, AtMostOneRisk'
    PROVE  HolesInv'
<1>1. ASSUME NEW r, r \in risks', "unsaved" \in risks'
      PROVE  r = "unsaved"
  BY <1>1 DEF AtMostOneRisk
<1>2. CASE EnsureLoaded
  BY <1>2, HolesLoad
<1>3. CASE SaveKey
  <2>1. "again" \notin risks'
    <3>1. "unsaved" \in risks'
      BY <1>3 DEF SaveKey, KeySaved
    <3> QED BY <1>1, <3>1
  <2>2. file' = Written(saving)
    BY <1>3, <2>1 DEF SaveKey, KeySaved
  <2> QED BY <1>3, <2>2, HolesSave
<1>4. CASE Exit
  <2>1. /\ saving = ABSENT /\ entries' = [i \in 1 .. MaxContacts |-> NoEntry] /\ count' = -1
        /\ saving' = ABSENT /\ added' = added /\ file' = file
    BY <1>4 DEF Exit
  <2> QED BY <2>1, HolesEnd
<1>5. CASE PowerFailure
  <2>1. /\ entries' = [i \in 1 .. MaxContacts |-> NoEntry] /\ count' = -1
        /\ saving' = ABSENT /\ added' = added
        /\ risks' = IF saving = ABSENT THEN risks ELSE risks \cup {"cut"}
        /\ UNCHANGED file \/ saving # ABSENT
    BY <1>5 DEF PowerFailure
  <2>2. saving = ABSENT
    <3>1. "unsaved" \in risks' /\ (saving # ABSENT => "cut" \in risks')
      BY <2>1
    <3> QED BY <1>1, <3>1
  <2> QED BY <2>1, <2>2, HolesEnd
<1>6. ASSUME NEW name \in Names, NEW address \in Addresses, Add(name, address)
      PROVE  HolesInv'
  BY <1>6, HolesAdd
<1>7. ASSUME NEW index \in 1 .. MaxContacts, Delete(index)
      PROVE  FALSE
  <2>1. "deleted" \in risks' /\ "unsaved" \in risks'
    BY <1>7 DEF Delete
  <2> QED BY <1>1, <2>1
<1> QED BY <1>2, <1>3, <1>4, <1>5, <1>6, <1>7 DEF BookNext

\* The risks of a behaviour only grow, and of steady ones there is one at most.
LEMMA RisksGrow ==
    ASSUME BookNext
    PROVE  /\ risks \subseteq risks'
           /\ steady => risks' \subseteq risks \cup {"deleted"}
<1>1. CASE EnsureLoaded
  BY <1>1 DEF EnsureLoaded
<1>2. CASE SaveKey
  BY <1>2 DEF SaveKey, KeySaved
<1>3. CASE Exit
  BY <1>3 DEF Exit
<1>4. CASE PowerFailure
  BY <1>4 DEF PowerFailure
<1>5. ASSUME NEW name \in Names, NEW address \in Addresses, Add(name, address)
      PROVE  risks' = risks
  BY <1>5 DEF Add
<1>6. ASSUME NEW index \in 1 .. MaxContacts, Delete(index)
      PROVE  risks' = risks \cup {"deleted"}
  BY <1>6 DEF Delete
<1> QED BY <1>1, <1>2, <1>3, <1>4, <1>5, <1>6 DEF BookNext

\* Only a save that fails becomes a risk of that name.
LEMMA FailedSave ==
    ASSUME BookNext, "unsaved" \notin risks, "unsaved" \in risks'
    PROVE  SaveKey /\ file' \in Unwritten(saving)
<1>1. ~EnsureLoaded
  BY DEF EnsureLoaded
<1>2. SaveKey => file' \in Unwritten(saving)
  BY DEF SaveKey, KeySaved
<1>3. ~Exit
  BY DEF Exit
<1>4. ~PowerFailure
  BY DEF PowerFailure
<1>5. \A name \in Names, address \in Addresses : ~Add(name, address)
  BY DEF Add
<1>6. \A index \in 1 .. MaxContacts : ~Delete(index)
  BY DEF Delete
<1> QED BY <1>1, <1>2, <1>3, <1>4, <1>5, <1>6 DEF BookNext

\* A step of the book keeps the invariant and, in a steady behaviour, is one
\* its promise allows.
LEMMA BookStep ==
    ASSUME AnyBook, [BookNext /\ UNCHANGED steady]_<<bookVars, steady>>
    PROVE  AnyBook' /\ [steady => TheBook!Next]_Visible
<1>1. CASE UNCHANGED bookVars /\ UNCHANGED steady
  <2>1. Visible' = Visible
    BY <1>1 DEF bookVars, Visible, Book
  <2>2. BookInv => BookInv'
    BY <1>1 DEF bookVars, BookInv, BookType, BookGenuine, BookStraight, Genuine, Straight,
                Growing, Current, ValueOf
  <2>3. HolesInv => HolesInv'
    BY <1>1 DEF bookVars, HolesInv, Genuine
  <2>4. /\ risks' = risks /\ steady' = steady /\ (AtMostOneRisk' <=> AtMostOneRisk)
    BY <1>1 DEF bookVars, AtMostOneRisk
  <2> QED BY <2>1, <2>2, <2>3, <2>4 DEF AnyBook
<1>2. CASE BookNext /\ UNCHANGED steady
  <2>1. risks \subseteq risks' /\ (steady => risks' \subseteq risks \cup {"deleted"})
    BY <1>2, RisksGrow
  <2>2. AtMostOneRisk' => AtMostOneRisk
    BY <2>1 DEF AtMostOneRisk
  <2>3. (steady => risks \subseteq {"deleted"}) /\ (steady' => risks' \subseteq {"deleted"})
    BY <1>2, <2>1 DEF AnyBook
  <2>4. steady => AtMostOneRisk' /\ "unsaved" \notin risks' /\ "cut" \notin risks'
    BY <1>2, <2>3 DEF AtMostOneRisk
  <2>5. ASSUME AtMostOneRisk', "unsaved" \notin risks'
        PROVE  BookInv' /\ ("cut" \notin risks' => Visible' = Visible \/ TheBook!Next)
    <3>1. BookInv
      BY <2>1, <2>2, <2>5 DEF AnyBook
    <3> QED BY <1>2, <2>5, <3>1, SoundStep
  <2>6. ASSUME AtMostOneRisk', "unsaved" \in risks'
        PROVE  HolesInv'
    <3>1. CASE "unsaved" \in risks
      <4>1. HolesInv
        BY <2>2, <2>6, <3>1 DEF AnyBook
      <4> QED BY <1>2, <2>6, <3>1, <4>1, HolesStep
    <3>2. CASE "unsaved" \notin risks
      <4>1. BookInv
        BY <2>2, <2>6, <3>2 DEF AnyBook
      <4>2. risks = {}
        <5>1. \A r \in risks' : r = "unsaved"
          BY <2>6 DEF AtMostOneRisk
        <5> QED BY <2>1, <3>2, <5>1
      <4>3. SaveKey /\ file' \in Unwritten(saving)
        BY <1>2, <2>6, <3>2, FailedSave
      <4> QED BY <4>1, <4>2, <4>3, HolesStart
    <3> QED BY <3>1, <3>2
  <2>7. AnyBook'
    BY <2>3, <2>5, <2>6 DEF AnyBook
  <2>8. [steady => TheBook!Next]_Visible
    BY <2>4, <2>5
  <2> QED BY <2>7, <2>8
<1> QED BY <1>1, <1>2

\* Of a device without a file, the book is empty.
LEMMA BookStart == BookInit => AnyBook /\ Visible = <<>>
<1> SUFFICES ASSUME BookInit
             PROVE  AnyBook /\ Visible = <<>>
  OBVIOUS
<1>1. /\ file = <<>> /\ entries = [i \in 1 .. MaxContacts |-> NoEntry]
      /\ count = -1 /\ saving = ABSENT /\ Len(file) = 0 /\ risks = {}
  BY DEF BookInit
<1>2. Ordered(file)
  BY <1>1, EmptySeq DEF Ordered
<1>3. CountIn(file) = 0
  BY <1>1, <1>2, CountOfLines
<1>4. /\ NoEntry \in Entry /\ NoEntry.name \notin Names /\ MaxContacts \in Nat
      /\ NoEntry.name \notin Addresses /\ NoEntry.address \notin Names
  BY BookAssumption DEF NoEntry, Entry, Strings
<1>5. BookType
  BY <1>1, <1>2, <1>4 DEF BookType
<1>6. BookGenuine
  BY <1>1, <1>3, <1>4 DEF BookGenuine, Genuine
<1>7. Growing /\ Current
  BY <1>1, <1>3, BookAssumption DEF Growing, Current
<1>8. Visible = <<>>
  <2>1. Visible \in Seq(Entry) /\ Len(Visible) = 0
    BY <1>1, <1>2, <1>3, ListOfLines DEF Visible
  <2> QED BY <2>1, EmptySeq
<1>9. BookStraight
  BY <1>1, <1>3, <1>4 DEF BookStraight, Straight
<1> QED BY <1>1, <1>5, <1>6, <1>7, <1>8, <1>9 DEF AnyBook, BookInv

\* No contact is ever shown that joins the name of one with the address of
\* another, wherever in a save the power failed, whatever was deleted, or
\* whichever write of a save failed, as long as only one of these happened.
THEOREM ContactsWereAdded == BookSpec => []PairsWereAdded
<1>1. AnyBook => PairsWereAdded
  <2> SUFFICES ASSUME AnyBook, AtMostOneRisk, NEW i \in DOMAIN Visible
               PROVE  Genuine(Visible[i])
    BY DEF PairsWereAdded, Genuine
  <2>1. BookInv \/ HolesInv
    BY DEF AnyBook
  <2> QED BY <2>1, VisibleWasAdded
<1>2. BookInit => AnyBook
  BY BookStart
<1>3. AnyBook /\ [BookNext /\ UNCHANGED steady]_<<bookVars, steady>> => AnyBook'
  BY BookStep
<1> QED BY <1>1, <1>2, <1>3, PTL DEF BookSpec

\* While neither the power nor a save fails, the address book is the list of
\* contacts it promises to be, from one program to the next.
THEOREM BookKeepsItsPromise == BookSpec => IsContacts
<1>1. BookInit => AnyBook /\ TheBook!Init
  BY BookStart DEF TheBook!Init
<1>2. AnyBook /\ [BookNext /\ UNCHANGED steady]_<<bookVars, steady>>
        => AnyBook' /\ [steady => TheBook!Next]_Visible
  BY BookStep
<1> QED BY <1>1, <1>2, PTL DEF BookSpec, IsContacts, TheBook!Spec

-----------------------------------------------------------------------------
(* The text field and the import of a recovery phrase.                      *)

\* A field the keys can make: its taps choose a character of its key.
Typable(f) ==
    /\ f \in Field /\ Len(f.buffer) <= MaxLen
    /\ f.key # NOKEY => f.taps < Len(KeyChars[f.key])

\* The letter that is being cycled is one of the keypad's.
LEMMA PendingIsChar ==
    ASSUME NEW f, Typable(f), f.key # NOKEY
    PROVE  PendingChar(f) \in Chars
<1> DEFINE c == KeyChars[f.key][f.taps + 1]
<1>1. f.key \in Keys /\ f.taps \in Nat /\ f.taps < Len(KeyChars[f.key])
  BY DEF Typable, Field
<1>2. \E S : KeyChars[f.key] \in Seq(S)
  BY <1>1, KeyAssumption
<1>3. DOMAIN KeyChars[f.key] = 1 .. Len(KeyChars[f.key]) /\ Len(KeyChars[f.key]) \in Nat
  BY <1>2, LenProperties
<1>4. f.taps + 1 \in DOMAIN KeyChars[f.key]
  BY <1>1, <1>3
<1>5. c \in Range(KeyChars[f.key])
  BY <1>4 DEF Range
<1>6. c \in Chars
  BY <1>1, <1>5 DEF Chars
<1>7. c \in DOMAIN Upper => Upper[c] \in Chars
  BY DEF Chars, Range
<1> QED BY <1>6, <1>7 DEF PendingChar

\* The end of a cycle appends the letter, once, where there is room.
LEMMA CommitAppends ==
    ASSUME NEW f, Typable(f)
    PROVE  /\ Typable(Commit(f)) /\ Commit(f).key = NOKEY
           /\ f.key # NOKEY =>
                 \/ Len(f.buffer) = MaxLen /\ Commit(f).buffer = f.buffer
                 \/ Commit(f).buffer = Append(f.buffer, PendingChar(f))
<1>1. f \in Field /\ f.buffer \in Seq(Chars) /\ Len(f.buffer) \in Nat /\ Len(f.buffer) <= MaxLen
  BY DEF Typable, Field
<1>2. CASE f.key = NOKEY
  BY <1>2 DEF Commit
<1>3. CASE f.key # NOKEY
  <2> DEFINE longer == Append(f.buffer, PendingChar(f))
             buffer == IF Len(f.buffer) < MaxLen THEN longer ELSE f.buffer
  <2>1. longer \in Seq(Chars) /\ Len(longer) = Len(f.buffer) + 1
    BY <1>1, <1>3, PendingIsChar, AppendProperties
  <2> HIDE DEF longer
  <2>2. buffer \in Seq(Chars) /\ Len(buffer) <= MaxLen /\ MaxLen \in Nat
    BY <1>1, <2>1, KeyAssumption
  <2>3. buffer = longer \/ (Len(f.buffer) = MaxLen /\ buffer = f.buffer)
    BY <1>1, <2>2
  <2>4. Commit(f) = [f EXCEPT !.buffer = buffer, !.key = NOKEY, !.taps = 0, !.elapsed = 0]
    BY <1>3 DEF Commit, longer
  <2> HIDE DEF buffer
  <2>5. /\ Commit(f) \in Field /\ Commit(f).buffer = buffer /\ Commit(f).key = NOKEY
    <3>1. 0 \in 0 .. CommitDelay /\ 0 \in Nat /\ NOKEY \in Keys \cup {NOKEY}
      BY KeyAssumption
    <3>2. [f EXCEPT !.buffer = buffer] \in Field
      BY <1>1, <2>2 DEF Field
    <3> QED BY <1>1, <2>2, <2>4, <3>1 DEF Field
  <2> QED BY <2>2, <2>3, <2>5 DEF Typable, longer
<1> QED BY <1>2, <1>3

\* Every key makes a field the keys can make.
LEMMA KeysKeepField ==
    ASSUME NEW f, Typable(f)
    PROVE  /\ \A d \in Keys : Typable(PressDigit(f, d))
           /\ Typable(PressStar(f)) /\ Typable(PressHash(f)) /\ Typable(PressUp(f))
           /\ \A ms \in 1 .. CommitDelay : Typable(AfterTick(f, ms))
<1>1. /\ f \in Field /\ f.buffer \in Seq(Chars) /\ Len(f.buffer) \in Nat
      /\ Len(f.buffer) <= MaxLen /\ f.taps \in Nat /\ f.elapsed \in 0 .. CommitDelay
      /\ f.key \in Keys \cup {NOKEY} /\ f.upper \in BOOLEAN
  BY DEF Typable, Field
<1>2. CommitDelay \in Nat \ {0} /\ MaxLen \in Nat /\ 0 \in 0 .. CommitDelay
      /\ \A k \in Keys : k # NOKEY /\ Len(KeyChars[k]) \in Nat \ {0}
  <2>1. \A k \in Keys : Len(KeyChars[k]) \in Nat \ {0}
    BY KeyAssumption, EmptySeq
  <2> QED BY <2>1, KeyAssumption DEF NOKEY
<1>3. ASSUME NEW d \in Keys
      PROVE  Typable(PressDigit(f, d))
  <2>1. CASE f.key = d
    <3> DEFINE taps == (f.taps + 1) % Len(KeyChars[d])
    <3>1. taps \in Nat /\ taps < Len(KeyChars[d])
      BY <1>1, <1>2
    <3>2. PressDigit(f, d) = [f EXCEPT !.taps = taps, !.elapsed = 0]
      BY <2>1 DEF PressDigit
    <3> HIDE DEF taps
    <3> QED BY <1>1, <1>2, <2>1, <3>1, <3>2 DEF Typable, Field
  <2>2. CASE f.key # d
    <3> DEFINE g == Commit(f)
    <3>1. g \in Field /\ g.buffer \in Seq(Chars) /\ Len(g.buffer) <= MaxLen
      BY CommitAppends DEF Typable, Field
    <3>2. PressDigit(f, d) = [g EXCEPT !.key = d, !.taps = 0, !.elapsed = 0]
      BY <2>2 DEF PressDigit
    <3> HIDE DEF g
    <3>3. /\ PressDigit(f, d) \in Field /\ PressDigit(f, d).buffer = g.buffer
          /\ PressDigit(f, d).taps = 0 /\ PressDigit(f, d).key = d
      <4>1. d \in Keys \cup {NOKEY} /\ 0 \in Nat /\ 0 \in 0 .. CommitDelay
        BY <1>2
      <4>2. [g EXCEPT !.key = d] \in Field
        BY <3>1, <4>1 DEF Field
      <4> QED BY <3>1, <3>2, <4>1, <4>2 DEF Field
    <3> QED BY <1>2, <3>1, <3>3 DEF Typable
  <2> QED BY <2>1, <2>2
<1>4. Typable(PressStar(f))
  BY <1>1 DEF PressStar, Typable, Field
<1>5. Typable(PressHash(f))
  <2>1. CASE f.key # NOKEY
    BY <1>1, <2>1 DEF PressHash, Typable, Field
  <2>2. CASE f.key = NOKEY /\ f.buffer # <<>>
    <3> DEFINE shorter == Front(f.buffer)
    <3>1. \A i \in 1 .. Len(f.buffer) - 1 : f.buffer[i] \in Chars
      BY <1>1, ElementOfSeq
    <3>2. shorter \in Seq(Chars)
          /\ Len(shorter) = IF 1 <= Len(f.buffer) - 1 THEN (Len(f.buffer) - 1) - 1 + 1 ELSE 0
      BY <1>1, <3>1, SubSeqProperties DEF Front
    <3>3. Len(shorter) <= MaxLen
      BY <1>1, <1>2, <3>2
    <3>4. PressHash(f) = [f EXCEPT !.buffer = shorter]
      BY <2>2 DEF PressHash
    <3> HIDE DEF shorter
    <3> QED BY <1>1, <2>2, <3>2, <3>3, <3>4 DEF Typable, Field
  <2>3. CASE f.key = NOKEY /\ f.buffer = <<>>
    BY <2>3 DEF PressHash
  <2> QED BY <2>1, <2>2, <2>3
<1>6. Typable(PressUp(f))
  BY CommitAppends DEF PressUp
<1>7. ASSUME NEW ms \in 1 .. CommitDelay
      PROVE  Typable(AfterTick(f, ms))
  <2>1. CASE f.key = NOKEY
    BY <2>1 DEF AfterTick
  <2>2. CASE TickDue(f, ms)
    BY <2>2, CommitAppends DEF AfterTick
  <2>3. CASE f.key # NOKEY /\ ~TickDue(f, ms)
    <3>1. f.elapsed + ms \in 0 .. CommitDelay
      BY <1>1, <1>2, <2>3 DEF TickDue
    <3>2. AfterTick(f, ms) = [f EXCEPT !.elapsed = f.elapsed + ms]
      BY <2>3 DEF AfterTick
    <3> QED BY <1>1, <2>3, <3>1, <3>2 DEF Typable, Field
  <2> QED BY <2>1, <2>2, <2>3
<1> QED BY <1>3, <1>4, <1>5, <1>6, <1>7

\* The first candidate is the first word of the list that begins with what
\* is typed.
LEMMA FirstMatch ==
    ASSUME NEW prefix, NEW k \in Matching(prefix), \A i \in Matching(prefix) : k <= i
    PROVE  Candidates(prefix)[1] = WordList[k]
<1> DEFINE M == Matching(prefix)
           below(i) == {j \in M : j <= i}
<1>1. DOMAIN WordList = 1 .. Len(WordList) /\ Len(WordList) \in Nat
  BY WordListAssumption, LenProperties
<1>2. /\ M \subseteq 1 .. Len(WordList) /\ IsFiniteSet(M) /\ Cardinality(M) \in Nat
      /\ Cardinality(M) >= 1
  <2>1. M \subseteq 1 .. Len(WordList)
    BY <1>1 DEF Matching
  <2>2. IsFiniteSet(1 .. Len(WordList))
    BY <1>1, FS_Interval
  <2>3. IsFiniteSet(M)
    BY <2>1, <2>2, FS_Subset
  <2>4. Cardinality(M) \in Nat /\ Cardinality(M) # 0
    BY <2>3, FS_CardinalityType, FS_EmptySet
  <2> QED BY <2>1, <2>3, <2>4
<1>3. k \in M /\ \A i \in M : k <= i
  OBVIOUS
<1>4. 1 \in {m \in 1 .. MaxCandidates : m <= Cardinality(M)}
  BY <1>2, WordListAssumption
<1> DEFINE first == CHOOSE i \in M : Cardinality({j \in M : j <= i}) = 1
<1>5. Candidates(prefix)[1] = WordList[first]
  BY <1>4 DEF Candidates
<1> HIDE DEF M
<1>6. Cardinality(below(k)) = 1
  <2>1. \A j \in M : j \in Nat /\ k <= j
    BY <1>1, <1>2, <1>3
  <2>2. \A j \in M : j <= k <=> j = k
    BY <1>3, <2>1
  <2>3. below(k) = {k}
    BY <1>3, <2>2
  <2> QED BY <2>3, FS_Singleton
<1>7. ASSUME NEW i \in M, Cardinality(below(i)) = 1
      PROVE  i = k
  <2>1. i \in below(i) /\ k \in below(i)
    BY <1>1, <1>2, <1>3
  <2>2. IsFiniteSet(below(i))
    BY <1>2, FS_Subset
  <2>3. \E x : below(i) = {x}
    BY <1>7, <2>2, FS_Singleton
  <2> QED BY <2>1, <2>3
<1>8. first = k
  BY <1>3, <1>6, <1>7
<1> QED BY <1>5, <1>8

\* A candidate is a word of the list.
LEMMA CandidateIsWord ==
    ASSUME NEW prefix, Candidates(prefix) # <<>>
    PROVE  Candidates(prefix)[1] \in Words
<1>1. DOMAIN WordList = 1 .. Len(WordList) /\ Len(WordList) \in Nat
  BY WordListAssumption, LenProperties
<1>2. Matching(prefix) # {}
  <2> SUFFICES ASSUME Matching(prefix) = {}
               PROVE  FALSE
    OBVIOUS
  <2>1. {m \in 1 .. MaxCandidates : m <= Cardinality(Matching(prefix))} = {}
    BY FS_EmptySet, WordListAssumption
  <2>2. DOMAIN Candidates(prefix) = {}
    BY <2>1 DEF Candidates
  <2>3. Candidates(prefix) \in [1 .. 0 -> {}]
    BY <2>1 DEF Candidates
  <2>4. Candidates(prefix) \in Seq({}) /\ Len(Candidates(prefix)) = 0
    BY <2>3
  <2> QED BY <2>4, EmptySeq
<1>3. Matching(prefix) \in SUBSET Nat
  BY <1>1 DEF Matching
<1>4. PICK k \in Matching(prefix) : \A i \in Matching(prefix) : k <= i
  BY <1>2, <1>3, LeastOfSet
<1>5. Candidates(prefix)[1] = WordList[k]
  BY <1>4, FirstMatch
<1> QED BY <1>1, <1>5 DEF Words, Range, Matching

\* A word that is typed out is the first of the words that begin with it.
LEMMA FirstCandidate ==
    ASSUME NEW word \in Words
    PROVE  Candidates(word)[1] = word
<1>1. PICK k \in DOMAIN WordList : word = WordList[k]
  BY DEF Words, Range
<1>2. DOMAIN WordList = 1 .. Len(WordList) /\ Len(WordList) \in Nat
  BY WordListAssumption, LenProperties
<1>3. word # <<>> /\ word \in Seq(Chars)
  <2>1. WordList[k] \in Seq(Chars) \ {<<>>}
    BY <1>2, WordListAssumption, ElementOfSeq
  <2> QED BY <1>1, <2>1
<1>4. k \in Matching(word)
  <2>1. Len(word) \in Nat
    BY <1>3
  <2> QED BY <1>1, <1>3, <2>1 DEF Matching, IsPrefix
<1>5. \A i \in Matching(word) : k <= i
  <2> SUFFICES ASSUME NEW i \in Matching(word), i < k
               PROVE  FALSE
    BY <1>2 DEF Matching
  <2>1. i \in DOMAIN WordList /\ IsPrefix(WordList[k], WordList[i])
    BY <1>1 DEF Matching
  <2> QED BY <2>1, WordListAssumption
<1> QED BY <1>1, <1>4, <1>5, FirstMatch

\* The field is one the keys can make, and the words are words of the list.
ImportInv == Typable(field) /\ words \in Seq(Words)

\* The keys can make an empty field, by not being pressed.
LEMMA EmptyIsTypable == Typable(EmptyField)
<1>1. <<>> \in Seq(Chars) /\ Len(<<>>) = 0
  BY EmptySeq
<1>2. MaxLen \in Nat /\ 0 \in 0 .. CommitDelay
  BY KeyAssumption
<1> QED BY <1>1, <1>2 DEF Typable, EmptyField, Field

\* What LetterIsKept says of one step.
LetterKept ==
    (Entering /\ field.key # NOKEY /\ field'.key # field.key /\ words' = words)
        => \/ Len(field.buffer) = MaxLen /\ field'.buffer = field.buffer
           \/ field'.buffer = Append(field.buffer, PendingChar(field))
           \/ field' = PressHash(field)

\* What TypedWordIsTaken says of one step.
WordTaken ==
    Entering /\ Len(words') > Len(words) /\ Commit(field).buffer \in Words
        => Last(words') = Commit(field).buffer

\* Every step keeps the invariant, the letters and the words.  A step that is
\* not a key or a tick of the field leaves it, ends its cycle, or empties it.
LEMMA ImportStep ==
    ASSUME ImportInv, [ImportNext]_importVars
    PROVE  ImportInv' /\ [LetterKept /\ WordTaken]_importVars
<1>1. Typable(field) /\ words \in Seq(Words) /\ Len(words) \in Nat
  BY DEF ImportInv
<1>2. /\ Typable(Commit(field)) /\ Commit(field).key = NOKEY
      /\ field.key # NOKEY =>
            \/ Len(field.buffer) = MaxLen /\ Commit(field).buffer = field.buffer
            \/ Commit(field).buffer = Append(field.buffer, PendingChar(field))
  BY <1>1, CommitAppends
<1>3. Len(<<>>) = 0 /\ <<>> \in Seq(Words)
  BY EmptySeq
<1>4. CASE UNCHANGED importVars
  BY <1>1, <1>4 DEF ImportInv, importVars
<1>5. CASE Type
  <2>1. words' = words
    BY <1>5 DEF Type, EditWord
  <2>2. ASSUME NEW d \in Keys, EditWord(PressDigit(field, d))
        PROVE  ImportInv' /\ LetterKept /\ WordTaken
    <3>1. field' = PressDigit(field, d) /\ Typable(field')
      BY <1>1, <2>2, KeysKeepField DEF EditWord
    <3>2. field'.key # field.key => field'.buffer = Commit(field).buffer
      <4>1. field \in Field /\ Commit(field) \in Field
        BY <1>1, <1>2 DEF Typable
      <4>2. CASE field.key = d
        BY <3>1, <4>1, <4>2 DEF PressDigit, Field
      <4>3. CASE field.key # d
        BY <3>1, <4>1, <4>3 DEF PressDigit, Field
      <4> QED BY <4>2, <4>3
    <3> QED BY <1>1, <1>2, <2>1, <3>1, <3>2 DEF ImportInv, LetterKept, WordTaken
  <2>3. CASE EditWord(PressStar(field))
    <3>1. Typable(field') /\ field'.key = field.key
      <4>1. field' = PressStar(field) /\ field \in Field
        BY <1>1, <2>3 DEF EditWord, Typable
      <4> QED BY <1>1, <4>1, KeysKeepField DEF PressStar, Field
    <3> QED BY <1>1, <2>1, <3>1 DEF ImportInv, LetterKept, WordTaken
  <2>4. CASE EditWord(PressHash(field))
    <3>1. field' = PressHash(field) /\ Typable(field')
      BY <1>1, <2>4, KeysKeepField DEF EditWord
    <3> QED BY <1>1, <2>1, <3>1 DEF ImportInv, LetterKept, WordTaken
  <2>5. CASE EditWord(PressUp(field))
    <3>1. field' = Commit(field)
      BY <2>5 DEF EditWord, PressUp
    <3> QED BY <1>1, <1>2, <2>1, <3>1 DEF ImportInv, LetterKept, WordTaken
  <2> QED BY <1>5, <2>2, <2>3, <2>4, <2>5 DEF Type
<1>6. ASSUME NEW ms \in 1 .. CommitDelay, Tick(ms)
      PROVE  ImportInv' /\ LetterKept /\ WordTaken
  <2>1. words' = words /\ field' = AfterTick(field, ms) /\ Typable(field')
    BY <1>1, <1>6, KeysKeepField DEF Tick, EditWord
  <2>2. field' = Commit(field) \/ field'.key = field.key
    BY <1>1, <2>1 DEF AfterTick, Typable, Field
  <2> QED BY <1>1, <1>2, <2>1, <2>2 DEF ImportInv, LetterKept, WordTaken
<1>7. CASE MoveDown
  BY <1>1, <1>7 DEF MoveDown, ImportInv, LetterKept, WordTaken
<1>8. CASE SelectNothing
  BY <1>1, <1>2, <1>8 DEF SelectNothing, ImportInv, LetterKept, WordTaken
<1>9. CASE SelectWord
  <2> DEFINE buffer == Commit(field).buffer
             word == Candidates(buffer)[1]
  <2>1. Entering /\ Candidates(buffer) # <<>> /\ words' = Append(words, word) /\ field' = EmptyField
    BY <1>9 DEF SelectWord
  <2>2. word \in Words
    BY <2>1, CandidateIsWord
  <2>3. buffer \in Words => word = buffer
    BY FirstCandidate
  <2> HIDE DEF buffer, word
  <2>4. words' \in Seq(Words) /\ Len(words') = Len(words) + 1 /\ words'[Len(words) + 1] = word
    BY <1>1, <2>1, <2>2, AppendProperties
  <2>5. words' # words
    BY <1>1, <2>4
  <2> QED BY <2>1, <2>3, <2>4, <2>5, EmptyIsTypable
          DEF ImportInv, LetterKept, WordTaken, Last, buffer
<1>10. CASE Close
  BY <1>1, <1>10 DEF Close, ImportInv, LetterKept, WordTaken
<1>11. CASE PinConfirmed
  BY <1>1, <1>11 DEF PinConfirmed, ImportInv, LetterKept, WordTaken
<1>12. CASE Open \/ Retry \/ PinCancelled
  <2>1. words' = <<>> /\ field' = EmptyField /\ ~Entering
    BY <1>12 DEF Open, Retry, PinCancelled, StartOver, Entering
  <2> QED BY <1>1, <1>3, <2>1, EmptyIsTypable DEF ImportInv, LetterKept, WordTaken
<1> QED BY <1>4, <1>5, <1>6, <1>7, <1>8, <1>9, <1>10, <1>11, <1>12 DEF ImportNext, ImportTick

\* The invariant holds at first.
LEMMA ImportStart == ImportInit => ImportInv
  BY EmptySeq, EmptyIsTypable DEF ImportInit, ImportInv

\* A letter that is shown becomes text, once, however its cycle ends, unless #
\* cancels it or the field is full.
THEOREM LettersAreKept == ImportSpec => LetterIsKept
<1>1. ImportInv /\ [ImportNext]_importVars => ImportInv' /\ [LetterKept]_importVars
  BY ImportStep
<1> QED BY <1>1, ImportStart, PTL DEF ImportSpec, LetterIsKept, LetterKept

\* Every word of the list can be entered: a word that is typed out is the one
\* that SELECT takes, for every list in which no word comes after an extension
\* of it.
THEOREM TypedWordsAreTaken == ImportSpec => TypedWordIsTaken
<1>1. ImportInv /\ [ImportNext]_importVars => ImportInv' /\ [WordTaken]_importVars
  BY ImportStep
<1> QED BY <1>1, ImportStart, PTL DEF ImportSpec, TypedWordIsTaken, WordTaken

-----------------------------------------------------------------------------
(* The amount of a transfer.                                                *)

\* FirstDot is the place of the first dot.
LEMMA FirstDotIsFirst ==
    ASSUME NEW S, NEW s \in Seq(S)
    PROVE  \/ FirstDot(s) = 0 /\ \A i \in 1 .. Len(s) : s[i] # DOT
           \/ /\ FirstDot(s) \in 1 .. Len(s) /\ s[FirstDot(s)] = DOT
              /\ \A i \in 1 .. FirstDot(s) - 1 : s[i] # DOT
<1> DEFINE I == {i \in 1 .. Len(s) : s[i] = DOT}
<1>1. FirstDot(s) = IF I # {} THEN Min(I) ELSE 0
  BY DEF FirstDot, SelectInSeq
<1>2. Len(s) \in Nat
  OBVIOUS
<1>3. CASE I = {}
  BY <1>1, <1>3
<1>4. CASE I # {}
  <2>1. I \in SUBSET Nat
    OBVIOUS
  <2>2. Min(I) \in I /\ \A k \in I : Min(I) <= k
    <3> HIDE DEF I
    <3>1. \E n \in I : \A k \in I : n <= k
      BY <1>4, <2>1, LeastOfSet
    <3> QED BY <3>1 DEF Min
  <2>3. Min(I) \in 1 .. Len(s) /\ s[Min(I)] = DOT
    BY <2>2
  <2>4. ASSUME NEW i \in 1 .. Min(I) - 1
        PROVE  s[i] # DOT
    <3>1. i \in 1 .. Len(s) /\ ~(Min(I) <= i)
      BY <2>3
    <3> QED BY <2>2, <3>1
  <2> HIDE DEF I
  <2> QED BY <1>1, <1>4, <2>3, <2>4
<1> QED BY <1>3, <1>4

\* A power of the base is a positive number.
LEMMA PowerType ==
    /\ Power \in [Nat -> Nat \ {0}] /\ Power[0] = 1
    /\ \A n \in Nat : Power[n + 1] = Base * Power[n]
<1> DEFINE P == Nat \ {0}
           Step(f) == [n \in Nat |-> IF n = 0 THEN 1 ELSE Base * f[n - 1]]
           step == [a \in Nat \X P |-> Base * a[2]]
<1>1. /\ 1 \in P /\ step \in [Nat \X P -> P]
      /\ \A n \in Nat, v \in P : step[<<n, v>>] = Base * v
  <2>1. \A v \in P : Base * v \in P
    BY AmountAssumption
  <2> HIDE DEF P
  <2> QED BY <2>1 DEF P
<1> HIDE DEF P, step
<1>2. PICK f : RecursOn(f, P, 1, step)
  BY <1>1, EndlessRecursion
<1>3. /\ f \in [Nat -> P] /\ f[0] = 1
      /\ \A n \in Nat : f[n] \in P /\ f[n + 1] = Base * f[n]
  <2>1. /\ f \in [Nat -> P] /\ f[0] = 1
        /\ \A n \in Nat : f[n + 1] = step[<<n + 1, f[n]>>]
    BY <1>2 DEF RecursOn
  <2>2. ASSUME NEW n \in Nat PROVE f[n] \in P /\ n + 1 \in Nat
    BY <2>1
  <2> QED BY <1>1, <2>1, <2>2
<1>4. f = Step(f)
  <2>1. ASSUME NEW n \in Nat PROVE f[n] = IF n = 0 THEN 1 ELSE Base * f[n - 1]
    <3>1. CASE n = 0
      BY <1>3, <3>1
    <3>2. CASE n # 0
      <4>1. n - 1 \in Nat /\ n - 1 + 1 = n
        BY <3>2
      <4>2. f[n - 1 + 1] = Base * f[n - 1]
        BY <1>3, <4>1
      <4> QED BY <3>2, <4>1, <4>2
    <3> QED BY <3>1, <3>2
  <2>2. f = [n \in Nat |-> f[n]]
    BY <1>3
  <2> QED BY <2>1, <2>2
<1>5. Power = Step(Power)
  <2>1. Power = CHOOSE p : p = Step(p)
    BY DEF Power
  <2> HIDE DEF Step
  <2> QED BY <1>4, <2>1
<1>6. Power[0] = 1 /\ \A n \in Nat : Power[n + 1] = Base * Power[n]
  <2>1. \A n \in Nat : n + 1 \in Nat /\ n + 1 # 0 /\ n + 1 - 1 = n
    OBVIOUS
  <2>2. \A n \in Nat : Power[n] = IF n = 0 THEN 1 ELSE Base * Power[n - 1]
    BY <1>5
  <2>3. 0 \in Nat
    OBVIOUS
  <2> QED BY <2>1, <2>2, <2>3
<1>7. \A n \in Nat : Power[n] \in Nat \ {0}
  <2> DEFINE S == {n \in Nat : Power[n] \in Nat \ {0}}
  <2>1. 0 \in S /\ \A n \in S : n + 1 \in S
    BY <1>6, AmountAssumption
  <2>2. S \in SUBSET Nat
    OBVIOUS
  <2>3. \A n \in Nat : n \in S
    <3> HIDE DEF S
    <3> QED BY <2>1, <2>2, Induction
  <2> QED BY <2>3
<1>8. Power = [n \in Nat |-> Power[n]]
  BY <1>5
<1> HIDE DEF Step
<1> QED BY <1>6, <1>7, <1>8

\* v[n] is the number that the first n characters of s stand for, without the
\* dots among them.
Reads(v, s) ==
    /\ v \in [0 .. Len(s) -> Nat] /\ v[0] = 0
    /\ \A n \in 1 .. Len(s) : v[n] = IF s[n] = DOT THEN v[n - 1] ELSE v[n - 1] * Base + s[n]

\* Every text of digits and dots stands for a number.
LEMMA TextIsRead ==
    ASSUME NEW s \in Seq(Digits \cup {DOT})
    PROVE  \E v : Reads(v, s)
<1> DEFINE N == Len(s)
           step == [a \in (1 .. N) \X Nat |-> IF s[a[1]] = DOT THEN a[2] ELSE a[2] * Base + s[a[1]]]
<1>1. N \in Nat /\ 0 \in Nat /\ Base \in Nat
  BY AmountAssumption
<1>2. ASSUME NEW n \in 1 .. N, NEW k \in Nat
      PROVE  (IF s[n] = DOT THEN k ELSE k * Base + s[n]) \in Nat
  <2>1. s[n] # DOT => s[n] \in Nat
    BY <1>1, ElementOfSeq DEF Digits
  <2>2. k * Base \in Nat
    BY <1>1
  <2> QED BY <2>1, <2>2
<1>3. step \in [(1 .. N) \X Nat -> Nat]
  BY <1>2
<1>4. \A n \in 1 .. N, k \in Nat :
         step[<<n, k>>] = IF s[n] = DOT THEN k ELSE k * Base + s[n]
  OBVIOUS
<1> HIDE DEF step
<1>5. PICK v : Recurs(v, N, Nat, 0, step)
  BY <1>1, <1>3, Recursion
<1>6. \A n \in 1 .. N : v[n - 1] \in Nat
  BY <1>1, <1>5 DEF Recurs
<1>7. /\ v \in [0 .. N -> Nat] /\ v[0] = 0
      /\ \A n \in 1 .. N : v[n] = step[<<n, v[n - 1]>>]
  BY <1>5 DEF Recurs
<1>8. ASSUME NEW n \in 1 .. N
      PROVE  v[n] = IF s[n] = DOT THEN v[n - 1] ELSE v[n - 1] * Base + s[n]
  <2>1. v[n] = step[<<n, v[n - 1]>>] /\ v[n - 1] \in Nat
    BY <1>6, <1>7
  <2> QED BY <1>4, <2>1, Zenon
<1>9. Reads(v, s)
  BY <1>7, <1>8 DEF Reads
<1> QED BY <1>9

\* Numerator is that number.
LEMMA NumeratorIsRead ==
    ASSUME NEW s \in Seq(Digits \cup {DOT})
    PROVE  \E v : Reads(v, s) /\ Numerator(s) = v[Len(s)]
<1> DEFINE Step(f) == [n \in 0 .. Len(s) |->
                          IF n = 0 THEN 0
                          ELSE IF s[n] = DOT THEN f[n - 1] ELSE f[n - 1] * Base + s[n]]
           read == CHOOSE f : f = Step(f)
<1>1. Len(s) \in Nat
  OBVIOUS
<1>2. PICK v : Reads(v, s)
  BY TextIsRead
<1>3. v = Step(v)
  BY <1>1, <1>2 DEF Reads
<1>4. read = Step(read)
  <2> HIDE DEF Step
  <2> QED BY <1>3
<1>5. Numerator(s) = read[Len(s)]
  BY DEF Numerator
<1> HIDE DEF read
<1>6. /\ read[0] = 0 /\ read = [n \in 0 .. Len(s) |-> read[n]]
      /\ \A n \in 1 .. Len(s) :
            read[n] = IF s[n] = DOT THEN read[n - 1] ELSE read[n - 1] * Base + s[n]
  BY <1>1, <1>4
<1>7. read = v
  <2> DEFINE S == {n \in 0 .. Len(s) : read[n] = v[n]}
  <2>1. 0 \in S
    BY <1>1, <1>2, <1>6 DEF Reads
  <2>2. ASSUME NEW n \in 0 .. Len(s), n # Len(s), n \in S PROVE n + 1 \in S
    <3>1. n + 1 \in 1 .. Len(s) /\ n + 1 - 1 = n /\ n + 1 \in 0 .. Len(s)
      BY <1>1, <2>2
    <3>2. read[n + 1] = IF s[n + 1] = DOT THEN read[n] ELSE read[n] * Base + s[n + 1]
      <4>1. \A m \in 1 .. Len(s) :
               read[m] = IF s[m] = DOT THEN read[m - 1] ELSE read[m - 1] * Base + s[m]
        BY <1>6, Zenon
      <4> DEFINE m == n + 1
      <4>2. m \in 1 .. Len(s) /\ m - 1 = n
        BY <3>1
      <4> HIDE DEF m
      <4>3. read[m] = IF s[m] = DOT THEN read[n] ELSE read[n] * Base + s[m]
        BY <4>1, <4>2
      <4> QED BY <4>3 DEF m
    <3>3. v[n + 1] = IF s[n + 1] = DOT THEN v[n] ELSE v[n] * Base + s[n + 1]
      BY <1>2, <3>1 DEF Reads
    <3> QED BY <2>2, <3>1, <3>2, <3>3
  <2>3. \A n \in 0 .. Len(s) : n \in S
    <3> HIDE DEF S
    <3> QED BY <1>1, <2>1, <2>2, BoundedInduction
  <2>4. v = [n \in 0 .. Len(s) |-> v[n]]
    BY <1>2 DEF Reads
  <2> QED BY <1>6, <2>3, <2>4
<1> QED BY <1>2, <1>5, <1>7

\* Value is it for a text of digits.
LEMMA ValueIsRead ==
    ASSUME NEW s \in Seq(Digits)
    PROVE  \E v : Reads(v, s) /\ Value(s) = v[Len(s)]
<1> DEFINE Step(f) == [n \in 0 .. Len(s) |-> IF n = 0 THEN 0 ELSE f[n - 1] * Base + s[n]]
           value == CHOOSE f : f = Step(f)
<1>1. /\ Len(s) \in Nat /\ s \in Seq(Digits \cup {DOT})
      /\ \A n \in 1 .. Len(s) : s[n] # DOT
  BY ElementOfSeq, AmountAssumption
<1>2. PICK v : Reads(v, s)
  BY <1>1, TextIsRead
<1>3. v = Step(v)
  BY <1>1, <1>2 DEF Reads
<1>4. value = Step(value)
  <2> HIDE DEF Step
  <2> QED BY <1>3
<1>5. Value(s) = value[Len(s)]
  BY DEF Value
<1> HIDE DEF value
<1>6. /\ value[0] = 0 /\ value = [n \in 0 .. Len(s) |-> value[n]]
      /\ \A n \in 1 .. Len(s) : value[n] = value[n - 1] * Base + s[n]
  BY <1>1, <1>4
<1>7. value = v
  <2> DEFINE S == {n \in 0 .. Len(s) : value[n] = v[n]}
  <2>1. 0 \in S
    BY <1>1, <1>2, <1>6 DEF Reads
  <2>2. ASSUME NEW n \in 0 .. Len(s), n # Len(s), n \in S PROVE n + 1 \in S
    <3>1. n + 1 \in 1 .. Len(s) /\ n + 1 - 1 = n /\ n + 1 \in 0 .. Len(s)
      BY <1>1, <2>2
    <3>2. value[n + 1] = value[n] * Base + s[n + 1]
      <4>1. \A m \in 1 .. Len(s) : value[m] = value[m - 1] * Base + s[m]
        BY <1>6, Zenon
      <4> DEFINE m == n + 1
      <4>2. m \in 1 .. Len(s) /\ m - 1 = n
        BY <3>1
      <4> HIDE DEF m
      <4>3. value[m] = value[n] * Base + s[m]
        BY <4>1, <4>2
      <4> QED BY <4>3 DEF m
    <3>3. v[n + 1] = v[n] * Base + s[n + 1]
      BY <1>1, <1>2, <3>1 DEF Reads
    <3> QED BY <2>2, <3>1, <3>2, <3>3
  <2>3. \A n \in 0 .. Len(s) : n \in S
    <3> HIDE DEF S
    <3> QED BY <1>1, <2>1, <2>2, BoundedInduction
  <2>4. v = [n \in 0 .. Len(s) |-> v[n]]
    BY <1>2 DEF Reads
  <2> QED BY <1>6, <2>3, <2>4
<1> QED BY <1>2, <1>5, <1>7

\* Exponents add up.
LEMMA PowersMultiply == \A m, n \in Nat : Power[m + n] = Power[m] * Power[n]
<1> SUFFICES ASSUME NEW m \in Nat
             PROVE  \A n \in Nat : Power[m + n] = Power[m] * Power[n]
  OBVIOUS
<1> DEFINE S == {n \in Nat : Power[m + n] = Power[m] * Power[n]}
<1>1. /\ Base \in Nat /\ Power[0] = 1
      /\ \A n \in Nat : Power[n] \in Nat /\ Power[n + 1] = Base * Power[n]
  BY PowerType, AmountAssumption
<1>2. 0 \in S
  <2>1. m + 0 = m
    OBVIOUS
  <2> QED BY <1>1, <2>1
<1>3. ASSUME NEW n \in S PROVE n + 1 \in S
  <2>1. n \in Nat /\ m + n \in Nat /\ m + (n + 1) = (m + n) + 1
    OBVIOUS
  <2>2. Power[m + (n + 1)] = Base * (Power[m] * Power[n])
    BY <1>1, <2>1
  <2>3. Power[m] * Power[n + 1] = Power[m] * (Base * Power[n])
    BY <1>1, <2>1
  <2>4. \A a, b, c \in Nat : a * (b * c) = b * (a * c)
    OBVIOUS
  <2>5. Power[m + (n + 1)] = Power[m] * Power[n + 1]
    BY <1>1, <2>1, <2>2, <2>3, <2>4
  <2> QED BY <2>1, <2>5
<1>4. S \in SUBSET Nat
  OBVIOUS
<1> HIDE DEF S
<1>5. \A n \in Nat : n \in S
  BY <1>2, <1>3, <1>4, Induction
<1> QED BY <1>5 DEF S

\* v reads s and w reads t, which begin with the same N characters.
BeginAlike(s, v, t, w, N) ==
    /\ s \in Seq(Digits \cup {DOT}) /\ Reads(v, s)
    /\ t \in Seq(Digits \cup {DOT}) /\ Reads(w, t)
    /\ N \in Nat /\ N <= Len(s) /\ N <= Len(t)
    /\ \A i \in 1 .. N : s[i] = t[i]

\* Two texts that begin alike are read alike as far as that goes.
LEMMA ReadAlike ==
    ASSUME NEW s, NEW v, NEW t, NEW w, NEW N, BeginAlike(s, v, t, w, N)
    PROVE  v[N] = w[N]
<1> USE DEF BeginAlike
<1> DEFINE S == {n \in 0 .. N : v[n] = w[n]}
<1>1. Len(s) \in Nat /\ Len(t) \in Nat
  OBVIOUS
<1>2. 0 \in S
  BY DEF Reads
<1>3. ASSUME NEW n \in 0 .. N, n # N, n \in S PROVE n + 1 \in S
  <2> DEFINE m == n + 1
  <2>1. m \in 0 .. N /\ m \in 1 .. N /\ m \in 1 .. Len(s) /\ m \in 1 .. Len(t) /\ m - 1 = n
    BY <1>1, <1>3
  <2> HIDE DEF m
  <2>2. v[m] = IF s[m] = DOT THEN v[n] ELSE v[n] * Base + s[m]
    BY <2>1 DEF Reads
  <2>3. w[m] = IF t[m] = DOT THEN w[n] ELSE w[n] * Base + t[m]
    BY <2>1 DEF Reads
  <2>4. v[n] = w[n] /\ s[m] = t[m]
    BY <1>3, <2>1
  <2>5. m \in S
    BY <2>1, <2>2, <2>3, <2>4
  <2> QED BY <2>5 DEF m
<1>4. \A n \in 0 .. N : n \in S
  <2> HIDE DEF S
  <2> QED BY <1>2, <1>3, BoundedInduction
<1> QED BY <1>4

\* v reads s and u reads t, whose first N digits stand in s behind place d.
GoesOn(s, v, t, u, d, N) ==
    /\ s \in Seq(Digits \cup {DOT}) /\ Reads(v, s)
    /\ t \in Seq(Digits) /\ Reads(u, t)
    /\ d \in Nat /\ N \in Nat /\ d + N <= Len(s) /\ N <= Len(t)
    /\ \A i \in 1 .. N : s[d + i] = t[i]

\* A text read on from a place, digit by digit: what stood before moves up by
\* a power of the base.
LEMMA ReadOn ==
    ASSUME NEW s, NEW v, NEW t, NEW u, NEW d, NEW N, GoesOn(s, v, t, u, d, N)
    PROVE  v[d + N] = v[d] * Power[N] + u[N]
<1> USE DEF GoesOn
<1> DEFINE S == {n \in 0 .. N : v[d + n] = v[d] * Power[n] + u[n]}
<1>1. /\ Base \in Nat /\ Power[0] = 1
      /\ \A n \in Nat : Power[n] \in Nat /\ Power[n + 1] = Base * Power[n]
  BY PowerType, AmountAssumption
<1>6. Len(s) \in Nat /\ Len(t) \in Nat /\ DOT \notin Digits /\ \A c \in Digits : c \in Nat
  <2>1. \A c \in Digits : c \in Nat
    BY <1>1 DEF Digits
  <2> QED BY <2>1, AmountAssumption
<1>2. /\ \A n \in 0 .. N : u[n] \in Nat /\ v[d + n] \in Nat
      /\ v[d] \in Nat /\ u[0] = 0
  <2>1. /\ \A n \in 0 .. N : n \in 0 .. Len(t) /\ d + n \in 0 .. Len(s)
        /\ d \in 0 .. Len(s)
    BY <1>6
  <2>2. u \in [0 .. Len(t) -> Nat] /\ v \in [0 .. Len(s) -> Nat] /\ u[0] = 0
    BY DEF Reads
  <2> QED BY <2>1, <2>2
<1>3. 0 \in S
  <2>1. d + 0 = d /\ v[d] * 1 + 0 = v[d]
    BY <1>2
  <2>2. v[d + 0] = v[d] * Power[0] + u[0]
    BY <1>1, <1>2, <2>1
  <2> QED BY <2>2
<1>4. ASSUME NEW n \in 0 .. N, n # N, n \in S PROVE n + 1 \in S
  <2> DEFINE m == n + 1
             i == d + m
  <2>1. /\ m \in 0 .. N /\ m \in 1 .. N /\ m \in 1 .. Len(t) /\ i \in 1 .. Len(s)
        /\ m - 1 = n /\ i - 1 = d + n /\ n \in Nat
    BY <1>6, <1>4
  <2>2. Power[m] = Base * Power[n] /\ Power[n] \in Nat
    BY <1>1, <2>1
  <2>3. s[i] = t[m] /\ t[m] \in Nat /\ t[m] # DOT
    <3>1. t[m] \in Digits /\ s[d + m] = t[m]
      <4> HIDE DEF m
      <4> QED BY <2>1, ElementOfSeq
    <3> QED BY <1>6, <3>1
  <2>9. s[i] # DOT
    BY <2>3
  <2> HIDE DEF m, i
  <2>4. v[i] = v[d + n] * Base + s[i]
    BY <2>1, <2>9 DEF Reads
  <2>5. u[m] = u[n] * Base + t[m]
    BY <2>1, <2>3 DEF Reads
  <2>6. v[d + n] = v[d] * Power[n] + u[n]
    BY <1>4
  <2>7. v[i] = v[d] * Power[m] + u[m]
    <3>1. u[n] \in Nat /\ v[d] \in Nat
      BY <1>2, <1>4
    <3>2. v[i] = (v[d] * Power[n] + u[n]) * Base + t[m]
      BY <2>3, <2>4, <2>6
    <3>3. (v[d] * Power[n] + u[n]) * Base + t[m] = v[d] * (Base * Power[n]) + (u[n] * Base + t[m])
      <4>1. v[d] \in Nat /\ Power[n] \in Nat /\ Base \in Nat /\ u[n] \in Nat /\ t[m] \in Nat
        BY <1>1, <2>2, <2>3, <3>1
      <4> DEFINE a == v[d]  p == Power[n]  c == u[n]  e == t[m]
      <4>2. a \in Nat /\ p \in Nat /\ Base \in Nat /\ c \in Nat /\ e \in Nat
        BY <4>1
      <4> HIDE DEF a, p, c, e
      <4>3. (a * p + c) * Base + e = a * (Base * p) + (c * Base + e)
        BY <4>2
      <4> QED BY <4>3 DEF a, p, c, e
    <3> QED BY <2>2, <2>5, <3>2, <3>3
  <2> QED BY <2>1, <2>7 DEF m, i
<1>5. \A n \in 0 .. N : n \in S
  <2> HIDE DEF S
  <2> QED BY <1>3, <1>4, BoundedInduction
<1> QED BY <1>5

\* What is read of a text of digits with a dot in it is what is read of the
\* digits before it, moved up by those behind it, and of these.
LEMMA NumeratorOfParts ==
    ASSUME NEW s \in Seq(Digits \cup {DOT}), NEW d \in 1 .. Len(s), s[d] = DOT,
           NEW whole \in Seq(Digits), Len(whole) = d - 1,
           NEW fraction \in Seq(Digits), Len(fraction) = Len(s) - d,
           \A i \in 1 .. d - 1 : s[i] = whole[i],
           \A i \in 1 .. Len(fraction) : s[d + i] = fraction[i]
    PROVE  Numerator(s) = Value(whole) * Power[Len(fraction)] + Value(fraction)
<1>1. PICK r : Reads(r, s) /\ Numerator(s) = r[Len(s)]
  BY NumeratorIsRead
<1>2. PICK v : Reads(v, whole) /\ Value(whole) = v[Len(whole)]
  BY ValueIsRead
<1>3. PICK u : Reads(u, fraction) /\ Value(fraction) = u[Len(fraction)]
  BY ValueIsRead
<1>4. /\ Len(s) \in Nat /\ d \in Nat /\ d - 1 \in Nat /\ Len(fraction) \in Nat
      /\ d + Len(fraction) = Len(s) /\ d + Len(fraction) <= Len(s)
      /\ d - 1 <= Len(s) /\ d - 1 <= Len(whole)
  OBVIOUS
<1>5. whole \in Seq(Digits \cup {DOT})
  <2>1. \A i \in 1 .. Len(whole) : whole[i] \in Digits
    BY ElementOfSeq
  <2> QED OBVIOUS
<1>6. r[d - 1] = v[d - 1]
  <2>1. /\ d - 1 \in Nat /\ d - 1 <= Len(s) /\ d - 1 <= Len(whole)
        /\ Reads(r, s) /\ Reads(v, whole)
        /\ \A i \in 1 .. d - 1 : s[i] = whole[i]
    BY <1>1, <1>2, <1>4
  <2>2. BeginAlike(s, r, whole, v, d - 1)
    BY <1>5, <2>1 DEF BeginAlike
  <2> QED BY <2>2, ReadAlike
<1>7. r[d] = r[d - 1]
  BY <1>1 DEF Reads
<1>8. r[d + Len(fraction)] = r[d] * Power[Len(fraction)] + u[Len(fraction)]
  <2>1. Len(fraction) <= Len(fraction)
    BY <1>4
  <2>2. /\ Reads(r, s) /\ Reads(u, fraction)
        /\ \A i \in 1 .. Len(fraction) : s[d + i] = fraction[i]
    BY <1>1, <1>3
  <2>3. GoesOn(s, r, fraction, u, d, Len(fraction))
    BY <1>4, <2>1, <2>2 DEF GoesOn
  <2> QED BY <2>3, ReadOn
<1> QED BY <1>1, <1>2, <1>3, <1>4, <1>6, <1>7, <1>8

\* Zeros behind a text of digits move it up.
LEMMA ValueOfPadded ==
    ASSUME NEW t \in Seq(Digits), NEW zeros \in Seq(Digits), \A i \in 1 .. Len(zeros) : zeros[i] = 0
    PROVE  Value(t \o zeros) = Value(t) * Power[Len(zeros)]
<1> DEFINE n == Len(t)  k == Len(zeros)
<1>1. /\ n \in Nat /\ k \in Nat /\ 0 \in Nat
      /\ t \o zeros \in Seq(Digits) /\ Len(t \o zeros) = n + k
      /\ \A i \in 1 .. n : (t \o zeros)[i] = t[i]
      /\ \A i \in 1 .. k : (t \o zeros)[n + i] = zeros[i]
  <2>1. /\ t \o zeros \in Seq(Digits) /\ Len(t \o zeros) = n + k
        /\ \A i \in 1 .. n + k : (t \o zeros)[i] = IF i <= n THEN t[i] ELSE zeros[i - n]
    BY ConcatProperties
  <2>2. n \in Nat /\ k \in Nat
    OBVIOUS
  <2>3. ASSUME NEW i \in 1 .. n PROVE (t \o zeros)[i] = t[i]
    <3>1. i \in 1 .. n + k /\ i <= n
      BY <2>2
    <3> QED BY <2>1, <3>1
  <2>4. ASSUME NEW i \in 1 .. k PROVE (t \o zeros)[n + i] = zeros[i]
    <3>1. n + i \in 1 .. n + k /\ ~(n + i <= n) /\ n + i - n = i
      BY <2>2
    <3> QED BY <2>1, <3>1
  <2> QED BY <2>1, <2>2, <2>3, <2>4
<1>2. PICK v : Reads(v, t \o zeros) /\ Value(t \o zeros) = v[n + k]
  BY <1>1, ValueIsRead
<1>3. PICK w : Reads(w, t) /\ Value(t) = w[n]
  BY ValueIsRead
<1>4. PICK u : Reads(u, zeros) /\ Value(zeros) = u[k]
  BY ValueIsRead
<1>5. t \in Seq(Digits \cup {DOT}) /\ t \o zeros \in Seq(Digits \cup {DOT})
  <2>1. \A S \in SUBSET (Digits \cup {DOT}) : Seq(S) \subseteq Seq(Digits \cup {DOT})
    OBVIOUS
  <2> QED BY <1>1, <2>1
<1> HIDE DEF n, k
<1>6. v[n] = w[n]
  <2>1. n <= Len(t \o zeros) /\ n <= Len(t)
    BY <1>1 DEF n
  <2>2. /\ Reads(v, t \o zeros) /\ Reads(w, t) /\ n \in Nat
        /\ \A i \in 1 .. n : (t \o zeros)[i] = t[i]
    BY <1>1, <1>2, <1>3
  <2>3. BeginAlike(t \o zeros, v, t, w, n)
    BY <1>5, <2>1, <2>2 DEF BeginAlike
  <2> QED BY <2>3, ReadAlike
<1>7. v[n + k] = v[n] * Power[k] + u[k]
  <2>1. n + k <= Len(t \o zeros) /\ k <= Len(zeros)
    BY <1>1 DEF k
  <2>2. /\ Reads(v, t \o zeros) /\ Reads(u, zeros) /\ n \in Nat /\ k \in Nat
        /\ \A i \in 1 .. k : (t \o zeros)[n + i] = zeros[i]
    BY <1>1, <1>2, <1>4
  <2>3. GoesOn(t \o zeros, v, zeros, u, n, k)
    BY <1>1, <1>5, <2>1, <2>2 DEF GoesOn
  <2> QED BY <2>3, ReadOn
<1>8. u[k] = 0
  <2> DEFINE S == {i \in 0 .. k : u[i] = 0}
  <2>1. 0 \in S
    BY <1>1, <1>4 DEF Reads
  <2>2. ASSUME NEW i \in 0 .. k, i # k, i \in S PROVE i + 1 \in S
    <3> DEFINE m == i + 1
    <3>1. m \in 1 .. k /\ m \in 0 .. k /\ m - 1 = i /\ m \in 1 .. Len(zeros)
      BY <1>1, <2>2 DEF k
    <3> HIDE DEF m
    <3>2. zeros[m] = 0 /\ 0 \in Digits /\ DOT \notin Digits
      BY <3>1, AmountAssumption DEF Digits
    <3>3. u[m] = u[i] * Base + 0
      BY <1>4, <3>1, <3>2 DEF Reads
    <3>4. u[i] = 0 /\ 0 * Base + 0 = 0
      BY <2>2, AmountAssumption
    <3>5. m \in S
      BY <3>1, <3>3, <3>4
    <3> QED BY <3>5 DEF m
  <2>3. \A i \in 0 .. k : i \in S
    <3> HIDE DEF S
    <3> QED BY <1>1, <2>1, <2>2, BoundedInduction
  <2> QED BY <1>1, <2>3
<1>9. v[n] \in Nat /\ Power[k] \in Nat
  <2>1. n \in 0 .. Len(t \o zeros)
    BY <1>1
  <2> QED BY <1>1, <1>2, <2>1, PowerType DEF Reads
<1>10. v[n + k] = v[n] * Power[k]
  BY <1>7, <1>8, <1>9
<1> QED BY <1>2, <1>3, <1>6, <1>10 DEF k

\* What the conversion takes an accepted text apart into: the digits before
\* the dot and those behind it, or all of them if there is none.
LEMMA PartsOfAccepted ==
    ASSUME NEW s \in Seq(Characters), Accepted(s)
    PROVE  LET d == FirstDot(s)  whole == WholePart(s)  fraction == FractionPart(s)
           IN  /\ whole \in Seq(Digits) /\ Len(whole) # 0
               /\ fraction \in Seq(Digits) /\ Len(fraction) <= Decimals
               /\ \/ whole = s /\ fraction = <<>>
                  \/ /\ d \in 1 .. Len(s) /\ s[d] = DOT
                     /\ Len(whole) = d - 1 /\ Len(fraction) = Len(s) - d
                     /\ \A i \in 1 .. d - 1 : s[i] = whole[i]
                     /\ \A i \in 1 .. Len(fraction) : s[d + i] = fraction[i]
<1> DEFINE d == FirstDot(s)  whole == WholePart(s)  fraction == FractionPart(s)
<1>1. /\ Len(s) \in Nat /\ s # <<>> /\ Decimals \in Nat
      /\ \A i \in 1 .. Len(s) : s[i] \in Characters
  BY ElementOfSeq, AmountAssumption DEF Accepted
<1>2. /\ whole # <<>> /\ IsNumeral(whole) /\ IsNumeral(fraction) /\ Len(fraction) <= Decimals
  BY DEF Accepted
<1>3. ASSUME NEW t \in Seq(Characters), IsNumeral(t) PROVE t \in Seq(Digits)
  <2>1. \A i \in 1 .. Len(t) : t[i] \in Digits
    BY <1>3 DEF IsNumeral
  <2> HIDE DEF Digits
  <2> QED BY <2>1
<1>4. CASE d = 0
  <2>1. whole = s /\ fraction = <<>>
    BY <1>4 DEF WholePart, FractionPart
  <2>2. Len(s) # 0 /\ Len(fraction) = 0 /\ fraction \in Seq(Digits)
    BY <1>1, <2>1, EmptySeq
  <2> QED BY <1>2, <1>3, <2>1, <2>2
<1>5. CASE d # 0
  <2>1. d \in 1 .. Len(s) /\ s[d] = DOT
    BY <1>5, FirstDotIsFirst
  <2>2. whole = SubSeq(s, 1, d - 1) /\ fraction = SubSeq(s, d + 1, Len(s))
    BY <1>5 DEF WholePart, FractionPart
  <2> HIDE DEF d, whole, fraction
  <2>3. d \in Nat /\ d - 1 \in Int /\ d + 1 \in Int /\ Len(s) \in Int
        /\ (\A i \in 1 .. d - 1 : s[i] \in Characters)
        /\ (\A i \in d + 1 .. Len(s) : s[i] \in Characters)
    BY <1>1, <2>1
  <2>4. /\ whole \in Seq(Characters)
        /\ Len(whole) = IF 1 <= d - 1 THEN (d - 1) - 1 + 1 ELSE 0
        /\ \A i \in 1 .. (d - 1) - 1 + 1 : whole[i] = s[1 + i - 1]
    BY <2>2, <2>3, SubSeqProperties
  <2>5. /\ fraction \in Seq(Characters)
        /\ Len(fraction) = IF d + 1 <= Len(s) THEN Len(s) - (d + 1) + 1 ELSE 0
        /\ \A i \in 1 .. Len(s) - (d + 1) + 1 : fraction[i] = s[(d + 1) + i - 1]
    BY <2>2, <2>3, SubSeqProperties
  <2>6. Len(whole) # 0 /\ Len(whole) = d - 1 /\ Len(fraction) = Len(s) - d
    <3>1. Len(whole) # 0
      BY <1>2, <2>4, EmptySeq
    <3>2. Len(whole) = IF 1 <= d - 1 THEN (d - 1) - 1 + 1 ELSE 0
      BY <2>4
    <3>3. Len(fraction) = IF d + 1 <= Len(s) THEN Len(s) - (d + 1) + 1 ELSE 0
      BY <2>5
    <3>4. Len(s) \in Nat /\ d \in 1 .. Len(s)
      BY <1>1, <2>1
    <3> QED BY ONLY <3>1, <3>2, <3>3, <3>4
  <2>7. ASSUME NEW i \in 1 .. d - 1 PROVE s[i] = whole[i]
    <3>1. 1 + i - 1 = i /\ i \in 1 .. (d - 1) - 1 + 1
      BY <2>3
    <3> QED BY <2>4, <3>1
  <2>8. ASSUME NEW i \in 1 .. Len(fraction) PROVE s[d + i] = fraction[i]
    <3>1. (d + 1) + i - 1 = d + i /\ i \in 1 .. Len(s) - (d + 1) + 1
      BY <1>1, <2>3, <2>6
    <3> QED BY <2>5, <3>1
  <2>9. whole \in Seq(Digits) /\ fraction \in Seq(Digits)
    BY <1>2, <1>3, <2>4, <2>5
  <2> QED BY <1>2, <2>1, <2>6, <2>7, <2>8, <2>9 DEF d, whole, fraction
<1> QED BY <1>4, <1>5

\* What the conversion accepts is a decimal number, a digit first, with one
\* dot at most.
LEMMA AcceptedIsDecimal ==
    ASSUME NEW s \in Seq(Characters), Accepted(s)
    PROVE  IsDecimal(s)
<1> DEFINE d == FirstDot(s)  whole == WholePart(s)  fraction == FractionPart(s)
<1>1. /\ whole \in Seq(Digits) /\ Len(whole) # 0 /\ fraction \in Seq(Digits)
      /\ \/ whole = s /\ fraction = <<>>
         \/ /\ d \in 1 .. Len(s) /\ s[d] = DOT
            /\ Len(whole) = d - 1 /\ Len(fraction) = Len(s) - d
            /\ \A i \in 1 .. d - 1 : s[i] = whole[i]
            /\ \A i \in 1 .. Len(fraction) : s[d + i] = fraction[i]
  BY PartsOfAccepted
<1>2. /\ Len(s) \in Nat /\ s # <<>> /\ DOMAIN s = 1 .. Len(s) /\ DOT \notin Digits
      /\ Head(s) = s[1] /\ Len(s) # 0
  BY EmptySeq, AmountAssumption DEF Accepted
<1> HIDE DEF d, whole, fraction
<1>3. /\ \A i \in 1 .. Len(whole) : whole[i] \in Digits
      /\ \A i \in 1 .. Len(fraction) : fraction[i] \in Digits
  BY <1>1, ElementOfSeq
<1>4. CASE whole = s
  BY <1>2, <1>3, <1>4 DEF IsDecimal
<1>5. CASE whole # s
  <2>1. /\ d \in 1 .. Len(s) /\ s[d] = DOT
        /\ Len(whole) = d - 1 /\ Len(fraction) = Len(s) - d
        /\ \A i \in 1 .. d - 1 : s[i] = whole[i]
        /\ \A i \in 1 .. Len(fraction) : s[d + i] = fraction[i]
    BY <1>1, <1>5
  <2>2. \A i \in 1 .. d - 1 : s[i] \in Digits
    BY <1>3, <2>1
  <2>3. ASSUME NEW i \in 1 .. Len(s), i > d PROVE s[i] \in Digits
    <3>1. i - d \in 1 .. Len(fraction) /\ d + (i - d) = i
      BY <1>2, <2>1, <2>3
    <3>2. s[d + (i - d)] = fraction[i - d] /\ fraction[i - d] \in Digits
      BY <1>3, <2>1, <3>1
    <3> QED BY <3>1, <3>2
  <2>4. \A i \in 1 .. Len(s) : i = d \/ i \in 1 .. d - 1 \/ i > d
    BY <1>2, <2>1
  <2>5. 1 \in 1 .. d - 1
    BY <1>1, <1>2, <2>1
  <2> QED BY <1>2, <2>1, <2>2, <2>3, <2>4, <2>5 DEF IsDecimal
<1> QED BY <1>4, <1>5

\* For an amount that fits the word, the conversion is exact.
LEMMA ConversionIsExact ==
    ASSUME NEW s \in Seq(Characters), Accepted(s), IsDecimal(s),
           Numerator(s) * Power[Decimals] < Word * Power[Places(s)]
    PROVE  Denotes(s, TezToMutez(s))
<1> DEFINE d == FirstDot(s)  whole == WholePart(s)  fraction == FractionPart(s)
           p == Len(fraction)
           zeros == [i \in 1 .. Decimals - p |-> 0]
<1>1. /\ whole \in Seq(Digits) /\ Len(whole) # 0
      /\ fraction \in Seq(Digits) /\ p <= Decimals /\ p \in Nat /\ Decimals \in Nat
      /\ \/ whole = s /\ fraction = <<>>
         \/ /\ d \in 1 .. Len(s) /\ s[d] = DOT
            /\ Len(whole) = d - 1 /\ Len(fraction) = Len(s) - d
            /\ \A i \in 1 .. d - 1 : s[i] = whole[i]
            /\ \A i \in 1 .. Len(fraction) : s[d + i] = fraction[i]
  BY PartsOfAccepted, AmountAssumption
<1>2. TezToMutez(s) = (Value(whole) * Power[Decimals] + Value(fraction \o zeros)) % Word
  BY DEF TezToMutez, PaddedFraction
<1> HIDE DEF d, whole, fraction
<1>3. Value(fraction \o zeros) = Value(fraction) * Power[Decimals - p]
  <2>1. Decimals - p \in Nat /\ 0 \in Digits
    BY <1>1, AmountAssumption DEF Digits
  <2>2. zeros \in Seq(Digits) /\ Len(zeros) = Decimals - p
    BY <2>1
  <2>3. \A i \in 1 .. Len(zeros) : zeros[i] = 0
    BY <2>2
  <2> HIDE DEF zeros
  <2> QED BY <1>1, <2>2, <2>3, ValueOfPadded
<1>4. s \in Seq(Digits \cup {DOT}) /\ Len(s) \in Nat
  <2>1. \A i \in 1 .. Len(s) : s[i] \in Digits \cup {DOT}
    BY DEF IsDecimal
  <2> QED BY <2>1
<1>5. ASSUME NEW t \in Seq(Digits) PROVE Value(t) \in Nat
  <2>1. PICK v : Reads(v, t) /\ Value(t) = v[Len(t)]
    BY ValueIsRead
  <2>2. Len(t) \in 0 .. Len(t)
    OBVIOUS
  <2> QED BY <2>1, <2>2 DEF Reads
<1>6. Numerator(s) = Value(whole) * Power[p] + Value(fraction) /\ Places(s) = p
  <2>1. CASE whole = s /\ fraction = <<>>
    <3>1. s \in Seq(Digits) /\ \A i \in 1 .. Len(s) : s[i] # DOT
      BY <1>1, <2>1, ElementOfSeq, AmountAssumption
    <3>2. PICK r : Reads(r, s) /\ Numerator(s) = r[Len(s)]
      BY <1>4, NumeratorIsRead
    <3>3. PICK v : Reads(v, s) /\ Value(s) = v[Len(s)]
      BY <3>1, ValueIsRead
    <3>4. r[Len(s)] = v[Len(s)]
      <4>1. BeginAlike(s, r, s, v, Len(s))
        BY <1>4, <3>2, <3>3 DEF BeginAlike
      <4> QED BY <4>1, ReadAlike
    <3>5. p = 0 /\ Value(fraction) = 0
      <4>1. PICK u : Reads(u, fraction) /\ Value(fraction) = u[p]
        BY <1>1, ValueIsRead
      <4>2. p = 0
        BY <2>1, EmptySeq
      <4> QED BY <4>1, <4>2 DEF Reads
    <3>6. Places(s) = 0
      BY <3>1 DEF Places
    <3>7. Value(s) \in Nat /\ Power[0] = 1
      BY <1>5, <3>1, PowerType
    <3>8. Value(s) * Power[0] + 0 = Value(s)
      BY <3>7
    <3> QED BY <2>1, <3>2, <3>3, <3>4, <3>5, <3>6, <3>8
  <2>2. CASE ~(whole = s /\ fraction = <<>>)
    <3>1. /\ d \in 1 .. Len(s) /\ s[d] = DOT
          /\ Len(whole) = d - 1 /\ Len(fraction) = Len(s) - d
          /\ \A i \in 1 .. d - 1 : s[i] = whole[i]
          /\ \A i \in 1 .. Len(fraction) : s[d + i] = fraction[i]
      BY <1>1, <2>2
    <3>2. Numerator(s) = Value(whole) * Power[p] + Value(fraction)
      BY <1>1, <1>4, <3>1, NumeratorOfParts
    <3>3. Places(s) = Len(s) - d
      <4>1. \A i \in DOMAIN s : s[i] = DOT => i = d
        BY <3>1 DEF IsDecimal
      <4>2. (CHOOSE i \in DOMAIN s : s[i] = DOT) = d /\ \E i \in DOMAIN s : s[i] = DOT
        BY <3>1, <4>1
      <4> QED BY <4>2 DEF Places
    <3> QED BY <3>1, <3>2, <3>3
  <2> QED BY <2>1, <2>2
<1> DEFINE a == Value(whole)  f == Value(fraction)
           P == Power[p]  Q == Power[Decimals - p]  T == Power[Decimals]
<1>7. a \in Nat /\ f \in Nat /\ P \in Nat \ {0} /\ Q \in Nat \ {0} /\ T \in Nat \ {0}
      /\ Word \in Nat \ {0}
  <2>1. Decimals - p \in Nat
    BY <1>1
  <2> QED BY <1>1, <1>5, <2>1, PowerType, AmountAssumption
<1>8. T = P * Q
  <2>1. Decimals - p \in Nat /\ p + (Decimals - p) = Decimals
    BY <1>1
  <2>2. Power[p + (Decimals - p)] = Power[p] * Power[Decimals - p]
    BY <1>1, <2>1, PowersMultiply, Zenon
  <2> QED BY <2>1, <2>2
<1>9. (a * P + f) * T < Word * P
  BY <1>6
<1>10. TezToMutez(s) = (a * T + f * Q) % Word
  BY <1>2, <1>3
<1>11. Denotes(s, TezToMutez(s)) <=> TezToMutez(s) * P = (a * P + f) * T
  BY <1>6 DEF Denotes
<1> HIDE DEF a, f, P, Q, T
<1>12. (a * T + f * Q) * P = (a * P + f) * T
  BY <1>7, <1>8
<1>13. a * T + f * Q \in Nat
  BY <1>7
<1>14. a * T + f * Q < Word
  <2> DEFINE t == a * T + f * Q
  <2>1. t \in Nat /\ t * P < Word * P
    BY <1>9, <1>12, <1>13
  <2> HIDE DEF t
  <2>2. SUFFICES ASSUME t >= Word PROVE FALSE
    BY <1>7, <2>1 DEF t
  <2>3. (t - Word) * P >= 0
    BY <1>7, <2>1, <2>2
  <2>4. (t - Word) * P = t * P - Word * P
    BY <1>7, <2>1
  <2> QED BY <1>7, <2>1, <2>3, <2>4
<1>15. (a * T + f * Q) % Word = a * T + f * Q
  BY <1>7, <1>13, <1>14
<1> QED BY <1>10, <1>11, <1>12, <1>15

\* What is typed are characters; a confirm screen is about what is typed, a
\* decimal number, and about the mutez it converts to.
AmountInv ==
    /\ typed \in Seq(Characters)
    /\ amountScreen = "confirm" =>
          /\ display = typed /\ IsDecimal(display)
          /\ mutez = TezToMutez(display) /\ mutez # NONE

\* Nothing but a decimal number is ever shown for confirmation, and what will
\* be sent is exactly what it denotes, for every amount that fits the machine
\* word (wallet_tez_to_mutez), any base, decimals and word.
THEOREM AmountShownIsSent == AmountSpec => []SmallAmountShownIsSent
<1>1. AmountInit => AmountInv
  BY EmptySeq DEF AmountInit, AmountInv
<1>2. AmountInv /\ [AmountNext]_amountVars => AmountInv'
  <2> SUFFICES ASSUME AmountInv, [AmountNext]_amountVars
               PROVE  AmountInv'
    OBVIOUS
  <2>1. CASE UNCHANGED amountVars
    BY <2>1 DEF amountVars, AmountInv
  <2>2. ASSUME NEW c \in Characters, TypeCharacter(c)
        PROVE  AmountInv'
    BY <2>2, AppendProperties DEF TypeCharacter, AmountInv
  <2>3. CASE Erase
    <3>1. \A i \in 1 .. Len(typed) - 1 : typed[i] \in Characters
      BY ElementOfSeq DEF AmountInv
    <3>2. Front(typed) \in Seq(Characters)
      BY <3>1, SubSeqProperties DEF Front, AmountInv
    <3> QED BY <2>3, <3>2 DEF Erase, AmountInv
  <2>4. CASE Submit
    <3>1. CASE TezToMutez(typed) = NONE
      BY <2>4, <3>1 DEF Submit, AmountInv
    <3>2. CASE TezToMutez(typed) # NONE
      <4>1. Accepted(typed)
        BY <3>2 DEF TezToMutez
      <4>2. IsDecimal(typed)
        BY <4>1, AcceptedIsDecimal DEF AmountInv
      <4> QED BY <2>4, <3>2, <4>2 DEF Submit, AmountInv
    <3> QED BY <3>1, <3>2
  <2>5. CASE BackToAmount
    BY <2>5 DEF BackToAmount, AmountInv
  <2> QED BY <2>1, <2>2, <2>3, <2>4, <2>5 DEF AmountNext
<1>3. AmountInv => SmallAmountShownIsSent
  <2> SUFFICES ASSUME AmountInv, amountScreen = "confirm"
               PROVE  /\ IsDecimal(display)
                      /\ Numerator(display) * Power[Decimals] < Word * Power[Places(display)]
                             => Denotes(display, mutez)
    BY DEF SmallAmountShownIsSent
  <2>1. /\ display \in Seq(Characters) /\ IsDecimal(display)
        /\ mutez = TezToMutez(display) /\ mutez # NONE
    BY DEF AmountInv
  <2>2. Accepted(display)
    BY <2>1 DEF TezToMutez
  <2> QED BY <2>1, <2>2, ConversionIsExact
<1> QED BY <1>1, <1>2, <1>3, PTL DEF AmountSpec
-----------------------------------------------------------------------------
(* Frames on a serial line.                                                *)

\* A byte has two halves of Half numbers each.
LEMMA ByteOK ==
    /\ Half \in Nat /\ Half >= 8 /\ 2 * Half \in Nat /\ 2 * Half > 15
    /\ Byte \subseteq Nat /\ Text \subseteq Byte /\ 0 .. 7 \subseteq Text
    /\ \A type \in {PING, GET_ADDRESS, SIGN_REQUEST} : AnswerTo(type) \in Byte \ Text
    /\ ERROR \in Byte \ Text
BY FrameAssumption DEF Byte, Text, PING, GET_ADDRESS, SIGN_REQUEST, ERROR, AnswerTo

\* A number of more than one byte is its low byte and the rest of it.
LEMMA LowByte ==
    ASSUME NEW n \in Nat
    PROVE  /\ n \div (2 * Half) \in Nat /\ n % (2 * Half) \in Byte
           /\ n = 2 * Half * (n \div (2 * Half)) + (n % (2 * Half))
<1> DEFINE b == 2 * Half
<1>1. b \in Nat /\ b > 0
  BY ByteOK
<1>2. n \div b \in Nat /\ n % b \in 0 .. b - 1 /\ n = b * (n \div b) + (n % b)
  <2> HIDE DEF b
  <2> QED BY <1>1
<1> QED BY <1>2 DEF Byte

\* Shifting by no byte, and by one more.
LEMMA ShiftedSteps ==
    ASSUME NEW n \in Nat
    PROVE  /\ Shifted(n, 0) = n
           /\ \A k \in Nat : /\ Shifted(n, k) \in Nat
                             /\ Shifted(n, k + 1) = Shifted(n, k) \div (2 * Half)
<1> DEFINE step == [p \in Nat \X Nat |-> p[2] \div (2 * Half)]
<1>1. step \in [Nat \X Nat -> Nat]
  BY LowByte
<1>2. PICK a : RecursOn(a, Nat, n, step)
  <2> HIDE DEF step
  <2> QED BY <1>1, EndlessRecursion
<1>3. a \in [Nat -> Nat] /\ a[0] = n /\ \A k \in Nat : a[k + 1] = step[<<k + 1, a[k]>>]
  BY <1>2 DEF RecursOn
<1>4. \A k \in Nat : a[k + 1] = a[k] \div (2 * Half)
  <2> TAKE k \in Nat
  <2>1. <<k + 1, a[k]>> \in Nat \X Nat
    BY <1>3
  <2> QED BY <1>3, <2>1
<1>5. ASSUME NEW N \in Nat PROVE Shifted(n, N) = a[N]
  <2> DEFINE Step(h) == [k \in 0 .. N |-> IF k = 0 THEN n ELSE h[k - 1] \div (2 * Half)]
             h == CHOOSE h : h = Step(h)
             g == [k \in 0 .. N |-> a[k]]
  <2>1. Shifted(n, N) = h[N]
    BY DEF Shifted
  <2>2. g = Step(g)
    <3>1. ASSUME NEW k \in 0 .. N PROVE g[k] = IF k = 0 THEN n ELSE g[k - 1] \div (2 * Half)
      <4>1. CASE k = 0
        BY <1>3, <4>1
      <4>2. CASE k # 0
        <5> DEFINE m == k - 1
        <5>1. m \in Nat /\ m \in 0 .. N /\ k = m + 1
          BY <4>2
        <5> HIDE DEF m
        <5>2. a[k] = a[m] \div (2 * Half)
          BY <1>4, <5>1
        <5> QED BY <4>2, <5>1, <5>2 DEF m
      <4> QED BY <4>1, <4>2
    <3> HIDE DEF g
    <3>2. g = [k \in 0 .. N |-> g[k]]
      BY DEF g
    <3> QED BY <3>1, <3>2
  <2>3. h = Step(h)
    <3> HIDE DEF Step, g
    <3> QED BY <2>2
  <2>4. h[0] = n /\ \A k \in 1 .. N : h[k] = h[k - 1] \div (2 * Half)
    <3> HIDE DEF h
    <3>1. \A k \in 0 .. N : h[k] = IF k = 0 THEN n ELSE h[k - 1] \div (2 * Half)
      BY <2>3
    <3>2. 0 \in 0 .. N /\ \A k \in 1 .. N : k \in 0 .. N /\ k # 0
      OBVIOUS
    <3> QED BY <3>1, <3>2
  <2> DEFINE S == {k \in 0 .. N : a[k] = h[k]}
  <2> HIDE DEF h
  <2>5. 0 \in S
    BY <1>3, <2>4
  <2>6. ASSUME NEW k \in 0 .. N, k # N, k \in S PROVE k + 1 \in S
    <3> DEFINE m == k + 1
    <3>1. m \in 1 .. N /\ m \in 0 .. N /\ m - 1 = k /\ k \in Nat
      BY <2>6
    <3>2. a[m] = a[k] \div (2 * Half)
      BY <1>4, <3>1
    <3> HIDE DEF m
    <3>3. h[m] = h[k] \div (2 * Half)
      BY <2>4, <3>1
    <3> QED BY <2>6, <3>1, <3>2, <3>3 DEF m
  <2>7. N \in S
    <3> HIDE DEF S
    <3>1. N \in 0 .. N
      OBVIOUS
    <3> QED BY <2>5, <2>6, <3>1, BoundedInduction
  <2> QED BY <2>1, <2>7
<1>6. ASSUME NEW k \in Nat
      PROVE  /\ Shifted(n, k) \in Nat
             /\ Shifted(n, k + 1) = Shifted(n, k) \div (2 * Half)
  <2>1. k + 1 \in Nat /\ a[k] \in Nat
    BY <1>3
  <2> QED BY <1>4, <1>5, <2>1
<1> QED BY <1>3, <1>5, <1>6

\* The numbers that bytes are read by, one after the other.
ReadsBytes(a, bytes) ==
    /\ a \in [0 .. Len(bytes) -> Nat] /\ a[0] = 0
    /\ \A i \in 1 .. Len(bytes) : a[i] = 2 * Half * a[i - 1] + bytes[i]

\* Number reads them all.
LEMMA NumberReads ==
    ASSUME NEW bytes \in Seq(Byte)
    PROVE  /\ Number(bytes) \in Nat
           /\ \A a : ReadsBytes(a, bytes) => Number(bytes) = a[Len(bytes)]
<1> DEFINE N == Len(bytes)
           step == [p \in (1 .. N) \X Nat |-> 2 * Half * p[2] + bytes[p[1]]]
           Step(r) == [i \in 0 .. N |-> IF i = 0 THEN 0 ELSE 2 * Half * r[i - 1] + bytes[i]]
           r == CHOOSE r : r = Step(r)
<1>1. N \in Nat /\ (\A i \in 1 .. N : bytes[i] \in Nat) /\ 2 * Half \in Nat
  <2>1. N \in Nat /\ \A i \in 1 .. N : bytes[i] \in Byte
    BY ElementOfSeq
  <2>2. Byte \subseteq Nat /\ 2 * Half \in Nat
    BY ByteOK
  <2> HIDE DEF N
  <2> QED BY <2>1, <2>2
<1>2. \A x, y \in Nat : 2 * Half * x + y \in Nat
  <2> DEFINE b == 2 * Half
  <2>1. b \in Nat
    BY <1>1
  <2> HIDE DEF b
  <2>2. \A x, y \in Nat : b * x + y \in Nat
    BY <2>1
  <2> QED BY <2>2 DEF b
<1>3. step \in [(1 .. N) \X Nat -> Nat]
  BY <1>1, <1>2
<1>4. PICK a : Recurs(a, N, Nat, 0, step)
  <2> HIDE DEF step, N
  <2> QED BY <1>1, <1>3, Recursion
<1>5. a \in [0 .. N -> Nat] /\ a[0] = 0 /\ \A i \in 1 .. N : a[i] = step[<<i, a[i - 1]>>]
  BY <1>4 DEF Recurs
<1>6. ASSUME NEW i \in 1 .. N PROVE a[i] = 2 * Half * a[i - 1] + bytes[i]
  <2>1. i - 1 \in 0 .. N
    OBVIOUS
  <2>2. <<i, a[i - 1]>> \in (1 .. N) \X Nat
    BY <1>5, <2>1
  <2> QED BY <1>5, <2>2
<1>7. ReadsBytes(a, bytes)
  BY <1>5, <1>6 DEF ReadsBytes
<1>8. a = Step(a)
  <2>1. ASSUME NEW i \in 0 .. N PROVE a[i] = IF i = 0 THEN 0 ELSE 2 * Half * a[i - 1] + bytes[i]
    <3>1. i = 0 \/ i \in 1 .. N
      BY <1>1
    <3> QED BY <1>5, <1>6, <3>1
  <2> QED BY <1>5, <2>1
<1>9. r = Step(r)
  <2> HIDE DEF Step
  <2> QED BY <1>8
<1>10. r[0] = 0 /\ \A i \in 1 .. N : r[i] = 2 * Half * r[i - 1] + bytes[i]
  <2> HIDE DEF r
  <2>1. \A i \in 0 .. N : r[i] = IF i = 0 THEN 0 ELSE 2 * Half * r[i - 1] + bytes[i]
    BY <1>9
  <2>2. 0 \in 0 .. N /\ \A i \in 1 .. N : i \in 0 .. N /\ i # 0
    BY <1>1
  <2> QED BY <2>1, <2>2
<1>11. Number(bytes) = r[N]
  BY DEF Number
<1> HIDE DEF r
<1>12. ASSUME NEW c, ReadsBytes(c, bytes) PROVE c[N] = r[N]
  <2> DEFINE S == {i \in 0 .. N : c[i] = r[i]}
  <2>1. c[0] = 0 /\ \A i \in 1 .. N : c[i] = 2 * Half * c[i - 1] + bytes[i]
    BY <1>12 DEF ReadsBytes
  <2>2. 0 \in S
    BY <1>1, <1>10, <2>1
  <2>3. ASSUME NEW i \in 0 .. N, i # N, i \in S PROVE i + 1 \in S
    <3> DEFINE m == i + 1
    <3>1. m \in 1 .. N /\ m \in 0 .. N /\ m - 1 = i /\ c[i] = r[i]
      BY <1>1, <2>3
    <3> HIDE DEF m
    <3>2. c[m] = 2 * Half * c[i] + bytes[m] /\ r[m] = 2 * Half * r[i] + bytes[m]
      BY <1>10, <2>1, <3>1
    <3> QED BY <3>1, <3>2 DEF m
  <2>4. N \in S
    <3> HIDE DEF S
    <3>1. N \in 0 .. N
      BY <1>1
    <3> QED BY <1>1, <2>2, <2>3, <3>1, BoundedInduction
  <2> QED BY <2>4
<1>13. Number(bytes) = a[N] /\ N \in 0 .. N
  BY <1>1, <1>7, <1>11, <1>12
<1>14. Number(bytes) \in Nat
  BY <1>5, <1>13
<1> QED BY <1>11, <1>12, <1>14

\* The numbers that fit in size bytes are read as they were written.
LEMMA BigEndianIsRead ==
    ASSUME NEW n \in Nat, NEW size \in Nat, Shifted(n, size) = 0
    PROVE  /\ BigEndian(n, size) \in Seq(Byte) /\ Len(BigEndian(n, size)) = size
           /\ Number(BigEndian(n, size)) = n
<1> DEFINE B == BigEndian(n, size)
           a == [i \in 0 .. size |-> Shifted(n, size - i)]
<1>1. \A k \in Nat : Shifted(n, k) \in Nat /\ Shifted(n, k + 1) = Shifted(n, k) \div (2 * Half)
  BY ShiftedSteps
<1>2. \A i \in 0 .. size : size - i \in Nat
  OBVIOUS
<1>3. \A i \in 1 .. size : Shifted(n, size - i) % (2 * Half) \in Byte
  <2> TAKE i \in 1 .. size
  <2>1. Shifted(n, size - i) \in Nat
    BY <1>1, <1>2
  <2> QED BY <2>1, LowByte
<1>4. B \in Seq(Byte) /\ Len(B) = size /\ \A i \in 1 .. size : B[i] = Shifted(n, size - i) % (2 * Half)
  BY <1>3 DEF BigEndian
<1> HIDE DEF B
<1>5. a \in [0 .. size -> Nat] /\ a[0] = 0 /\ a[size] = n
  <2>1. size - 0 = size /\ size - size = 0 /\ 0 \in 0 .. size /\ size \in 0 .. size
    OBVIOUS
  <2> QED BY <1>1, <1>2, <2>1, ShiftedSteps
<1>6. ASSUME NEW i \in 1 .. size PROVE a[i] = 2 * Half * a[i - 1] + B[i]
  <2> DEFINE k == size - i
             m == Shifted(n, k)
  <2>1. k \in Nat /\ size - (i - 1) = k + 1 /\ i \in 0 .. size /\ i - 1 \in 0 .. size
    OBVIOUS
  <2>2. m \in Nat /\ Shifted(n, k + 1) = m \div (2 * Half)
    BY <1>1, <2>1
  <2>3. a[i] = m /\ a[i - 1] = m \div (2 * Half) /\ B[i] = m % (2 * Half)
    BY <1>4, <2>1, <2>2
  <2> HIDE DEF m, a
  <2>4. m = 2 * Half * (m \div (2 * Half)) + (m % (2 * Half))
    BY <2>2, LowByte
  <2> QED BY <2>3, <2>4
<1> HIDE DEF a
<1>7. ReadsBytes(a, B)
  BY <1>4, <1>5, <1>6 DEF ReadsBytes
<1>8. Number(B) = a[size]
  BY <1>4, <1>7, NumberReads
<1> QED BY <1>4, <1>5, <1>8 DEF B

\* Two bytes are read as a number of two digits.
LEMMA TwoBytes ==
    ASSUME NEW bytes \in Seq(Byte), Len(bytes) = 2
    PROVE  Number(bytes) = 2 * Half * bytes[1] + bytes[2]
<1> DEFINE a == [i \in 0 .. 2 |-> IF i = 0 THEN 0 ELSE IF i = 1 THEN bytes[1]
                                                       ELSE 2 * Half * bytes[1] + bytes[2]]
           b == 2 * Half
<1>1. bytes[1] \in Nat /\ bytes[2] \in Nat /\ b \in Nat
  <2>1. 1 \in 1 .. Len(bytes) /\ 2 \in 1 .. Len(bytes)
    OBVIOUS
  <2>2. bytes[1] \in Byte /\ bytes[2] \in Byte
    BY <2>1, ElementOfSeq, Zenon
  <2> QED BY <2>2, ByteOK
<1> HIDE DEF b
<1>2. b * bytes[1] + bytes[2] \in Nat /\ b * 0 + bytes[1] = bytes[1]
  BY <1>1
<1>3. a[0] = 0 /\ a[1] = bytes[1] /\ a[2] = b * bytes[1] + bytes[2] /\ a \in [0 .. 2 -> Nat]
  BY <1>1, <1>2 DEF b
<1> HIDE DEF a
<1>4. \A i \in 1 .. 2 : (i = 1 /\ i - 1 = 0) \/ (i = 2 /\ i - 1 = 1)
  OBVIOUS
<1>5. \A i \in 1 .. 2 : a[i] = b * a[i - 1] + bytes[i]
  BY <1>2, <1>3, <1>4
<1>6. ReadsBytes(a, bytes)
  BY <1>3, <1>5 DEF ReadsBytes, b
<1> QED BY <1>3, <1>6, NumberReads DEF b

\* The checksums of the bytes up to each.
Sums(a, bytes) ==
    /\ a \in [0 .. Len(bytes) -> Byte] /\ a[0] = 0
    /\ \A i \in 1 .. Len(bytes) : a[i] = BitXor(a[i - 1], bytes[i])

\* What ^ does to bytes can be undone, and leaves a high bit set.
LEMMA XorOK ==
    /\ \A a, b \in Byte : BitXor(a, b) \in Byte
    /\ \A a, b, c \in Byte : BitXor(a, b) = BitXor(c, b) => a = c
    /\ \A a, b, c \in Byte : BitXor(a, b) = BitXor(a, c) => b = c
    /\ \A a \in Byte : BitXor(0, a) = a
    /\ \A a \in Byte \ Text, b \in Text : BitXor(a, b) \in Byte \ Text
    /\ 0 \in Byte
<1>1. /\ \A a, b \in Byte : BitXor(a, b) \in Byte /\ BitXor(BitXor(a, b), b) = a /\ BitXor(a, BitXor(a, b)) = b
      /\ \A a \in Byte : BitXor(0, a) = a
      /\ \A a \in Byte \ Text, b \in Text : BitXor(a, b) \notin Text
  BY FrameAssumption
<1>2. Text \subseteq Byte /\ 0 \in Byte
  BY ByteOK
<1> QED BY <1>1, <1>2

\* Checksum is the last of them.
LEMMA ChecksumSums ==
    ASSUME NEW bytes \in Seq(Byte)
    PROVE  \E a : Sums(a, bytes) /\ Checksum(bytes) = a[Len(bytes)]
<1> DEFINE N == Len(bytes)
           step == [p \in (1 .. N) \X Byte |-> BitXor(p[2], bytes[p[1]])]
           Step(r) == [i \in 0 .. N |-> IF i = 0 THEN 0 ELSE BitXor(r[i - 1], bytes[i])]
           r == CHOOSE r : r = Step(r)
<1>1. N \in Nat /\ \A i \in 1 .. N : bytes[i] \in Byte
  BY ElementOfSeq
<1>2. step \in [(1 .. N) \X Byte -> Byte] /\ 0 \in Byte
  BY <1>1, XorOK
<1>3. PICK a : Recurs(a, N, Byte, 0, step)
  <2> HIDE DEF step, N
  <2> QED BY <1>1, <1>2, Recursion
<1>4. a \in [0 .. N -> Byte] /\ a[0] = 0 /\ \A i \in 1 .. N : a[i] = step[<<i, a[i - 1]>>]
  BY <1>3 DEF Recurs
<1>5. ASSUME NEW i \in 1 .. N PROVE a[i] = BitXor(a[i - 1], bytes[i])
  <2>1. i - 1 \in 0 .. N
    OBVIOUS
  <2>2. <<i, a[i - 1]>> \in (1 .. N) \X Byte
    BY <1>4, <2>1
  <2> QED BY <1>4, <2>2
<1>6. a = Step(a)
  <2>1. ASSUME NEW i \in 0 .. N PROVE a[i] = IF i = 0 THEN 0 ELSE BitXor(a[i - 1], bytes[i])
    <3>1. i = 0 \/ i \in 1 .. N
      BY <1>1
    <3> QED BY <1>4, <1>5, <3>1
  <2> QED BY <1>4, <2>1
<1>7. r = Step(r)
  <2> HIDE DEF Step
  <2> QED BY <1>6
<1>8. r \in [0 .. N -> Byte] /\ r[0] = 0 /\ \A i \in 1 .. N : r[i] = BitXor(r[i - 1], bytes[i])
  <2> HIDE DEF r
  <2>1. \A i \in 0 .. N : r[i] = IF i = 0 THEN 0 ELSE BitXor(r[i - 1], bytes[i])
    BY <1>7
  <2>2. 0 \in 0 .. N /\ \A i \in 1 .. N : i \in 0 .. N /\ i # 0 /\ i - 1 \in 0 .. N
    BY <1>1
  <2>3. r[0] = 0 /\ \A i \in 1 .. N : r[i] = BitXor(r[i - 1], bytes[i])
    BY <2>1, <2>2
  <2> DEFINE S == {i \in 0 .. N : r[i] \in Byte}
  <2>4. 0 \in S
    BY <1>2, <2>2, <2>3
  <2>5. ASSUME NEW i \in 0 .. N, i # N, i \in S PROVE i + 1 \in S
    <3> DEFINE m == i + 1
    <3>1. m \in 1 .. N /\ m \in 0 .. N /\ m - 1 = i /\ r[i] \in Byte
      BY <1>1, <2>5
    <3> HIDE DEF m
    <3>2. r[m] = BitXor(r[i], bytes[m]) /\ bytes[m] \in Byte
      BY <1>1, <2>3, <3>1
    <3>3. r[m] \in Byte
      BY <3>1, <3>2, XorOK
    <3> QED BY <3>1, <3>3 DEF m
  <2>6. \A i \in 0 .. N : i \in S
    <3> HIDE DEF S
    <3> QED BY <1>1, <2>4, <2>5, BoundedInduction
  <2>7. r = [i \in 0 .. N |-> r[i]]
    BY <1>7
  <2> QED BY <2>3, <2>6, <2>7
<1> HIDE DEF r
<1>9. Sums(r, bytes)
  BY <1>8 DEF Sums
<1>10. Checksum(bytes) = r[N]
  BY DEF Checksum, r
<1> QED BY <1>9, <1>10

\* Two sequences of bytes that differ in one place.
DifferAt(s, t, place) ==
    /\ Len(s) = Len(t) /\ place \in 1 .. Len(s) /\ s[place] # t[place]
    /\ \A i \in 1 .. Len(s) : i # place => s[i] = t[i]

\* Their checksums differ.
LEMMA ChecksumDiffers ==
    ASSUME NEW s \in Seq(Byte), NEW t \in Seq(Byte), NEW place, DifferAt(s, t, place)
    PROVE  Checksum(s) # Checksum(t)
<1>1. PICK a : Sums(a, s) /\ Checksum(s) = a[Len(s)]
  BY ChecksumSums
<1>2. PICK b : Sums(b, t) /\ Checksum(t) = b[Len(t)]
  BY ChecksumSums
<1> DEFINE N == Len(s)
<1>3. /\ N \in Nat /\ Len(t) = N /\ place \in 1 .. N /\ s[place] # t[place]
      /\ \A i \in 1 .. N : s[i] \in Byte /\ t[i] \in Byte /\ (i # place => s[i] = t[i])
  BY ElementOfSeq DEF DifferAt
<1>4. /\ a \in [0 .. N -> Byte] /\ b \in [0 .. N -> Byte] /\ a[0] = b[0]
      /\ \A i \in 1 .. N : a[i] = BitXor(a[i - 1], s[i]) /\ b[i] = BitXor(b[i - 1], t[i])
  BY <1>1, <1>2, <1>3 DEF Sums
<1> DEFINE S == {i \in 0 .. N : IF i < place THEN a[i] = b[i] ELSE a[i] # b[i]}
<1> HIDE DEF N
<1>5. 0 \in S
  BY <1>3, <1>4
<1>6. ASSUME NEW i \in 0 .. N, i # N, i \in S PROVE i + 1 \in S
  <2> DEFINE m == i + 1
  <2>1. m \in 1 .. N /\ m \in 0 .. N /\ m - 1 = i /\ (IF i < place THEN a[i] = b[i] ELSE a[i] # b[i])
    BY <1>3, <1>6
  <2>2. (i < place <=> m <= place) /\ i \in Nat
    BY <1>3, <1>6
  <2> HIDE DEF m
  <2>3. a[i] \in Byte /\ b[i] \in Byte /\ s[m] \in Byte /\ t[m] \in Byte
    BY <1>3, <1>4, <2>1
  <2>4. a[m] = BitXor(a[i], s[m]) /\ b[m] = BitXor(b[i], t[m])
    BY <1>4, <2>1
  <2>5. CASE m < place
    BY <1>3, <2>1, <2>2, <2>4, <2>5 DEF m
  <2>6. CASE m = place
    <3>1. a[i] = b[i] /\ ~(m < place)
      BY <1>3, <2>1, <2>2, <2>6
    <3>2. s[m] # t[m]
      BY <1>3, <2>6
    <3>3. BitXor(a[i], s[m]) # BitXor(a[i], t[m])
      BY <2>3, <3>2, XorOK
    <3>4. a[m] # b[m]
      BY <2>4, <3>1, <3>3
    <3> QED BY <2>1, <3>1, <3>4 DEF m
  <2>7. CASE m > place
    <3>1. a[i] # b[i] /\ ~(m < place) /\ s[m] = t[m]
      BY <1>3, <2>1, <2>2, <2>7
    <3>2. a[m] # b[m]
      BY <2>3, <2>4, <3>1, XorOK, SMTT(30)
    <3> QED BY <2>1, <3>1, <3>2 DEF m
  <2> QED BY <1>3, <2>1, <2>5, <2>6, <2>7
<1>7. N \in S
  <2> HIDE DEF S
  <2>1. N \in 0 .. N
    BY <1>3
  <2> QED BY <1>3, <1>5, <1>6, <2>1, BoundedInduction
<1>8. a[N] # b[N]
  BY <1>3, <1>7
<1> QED BY <1>1, <1>2, <1>3, <1>8 DEF N

\* The checksum of a byte with its high bit set and of texts after it has it set.
LEMMA ChecksumHigh ==
    ASSUME NEW s \in Seq(Byte), s # <<>>, s[1] \notin Text, \A i \in 2 .. Len(s) : s[i] \in Text
    PROVE  Checksum(s) \notin Text
<1>1. PICK a : Sums(a, s) /\ Checksum(s) = a[Len(s)]
  BY ChecksumSums
<1> DEFINE N == Len(s)
           S == {i \in 0 .. N : i # 0 => a[i] \in Byte \ Text}
<1>2. N \in Nat /\ N # 0 /\ s[1] \in Byte \ Text /\ \A i \in 1 .. N : s[i] \in Byte
  BY ElementOfSeq
<1>3. a \in [0 .. N -> Byte] /\ a[0] = 0 /\ \A i \in 1 .. N : a[i] = BitXor(a[i - 1], s[i])
  BY <1>1 DEF Sums
<1> HIDE DEF N
<1>4. 0 \in S
  BY <1>2
<1>5. ASSUME NEW i \in 0 .. N, i # N, i \in S PROVE i + 1 \in S
  <2> DEFINE m == i + 1
  <2>1. m \in 1 .. N /\ m \in 0 .. N /\ m - 1 = i /\ (i # 0 => a[i] \in Byte \ Text /\ m \in 2 .. N)
    BY <1>2, <1>5
  <2>2. i = 0 => m = 1
    OBVIOUS
  <2> HIDE DEF m
  <2>3. a[m] = BitXor(a[i], s[m])
    BY <1>3, <2>1
  <2>4. CASE i = 0
    <3>1. a[m] = s[1]
      BY <1>2, <1>3, <2>2, <2>3, <2>4, XorOK
    <3> QED BY <1>2, <2>1, <3>1 DEF m
  <2>5. CASE i # 0
    <3>1. s[m] \in Text
      BY <2>1, <2>5 DEF N
    <3>2. a[m] \in Byte \ Text
      BY <2>1, <2>3, <2>5, <3>1, XorOK
    <3> QED BY <2>1, <3>2 DEF m
  <2> QED BY <2>4, <2>5
<1>6. N \in S
  <2> HIDE DEF S
  <2>1. N \in 0 .. N
    BY <1>2
  <2> QED BY <1>2, <1>4, <1>5, <2>1, BoundedInduction
<1> QED BY <1>1, <1>2, <1>6 DEF N

\* What a frame of a type and a payload consists of.
IsFrame(w, type, payload) ==
    /\ w \in Seq(Byte) /\ Len(w) = Len(payload) + 5
    /\ w[1] = START /\ 2 * Half * w[2] + w[3] = Len(payload) + 1 /\ w[4] = type
    /\ \A i \in 1 .. Len(payload) : w[4 + i] = payload[i]
    /\ w[Len(payload) + 5] = Checksum(<<type>> \o payload)

\* Five sequences of bytes in a row, three of them of one byte and one of two.
IsRow(w, a, b, c, p, d) ==
    /\ w \in Seq(Byte) /\ Len(w) = Len(p) + 5
    /\ w[1] = a[1] /\ w[2] = b[1] /\ w[3] = b[2] /\ w[4] = c[1]
    /\ \A i \in 1 .. Len(p) : w[4 + i] = p[i]
    /\ w[Len(p) + 5] = d[1]

\* They are in it one after the other.
LEMMA InARow ==
    ASSUME NEW a \in Seq(Byte), NEW b \in Seq(Byte), NEW c \in Seq(Byte), NEW p \in Seq(Byte),
           NEW d \in Seq(Byte), Len(a) = 1, Len(b) = 2, Len(c) = 1, Len(d) = 1
    PROVE  IsRow(a \o b \o c \o p \o d, a, b, c, p, d)
<1> DEFINE ab == a \o b
           abc == ab \o c
           abcp == abc \o p
           w == abcp \o d
           L == Len(p)
<1>0. L \in Nat
  OBVIOUS
<1>1. ab \in Seq(Byte) /\ Len(ab) = 3 /\ ab[1] = a[1] /\ ab[2] = b[1] /\ ab[3] = b[2]
  <2>1. /\ ab \in Seq(Byte) /\ Len(ab) = Len(a) + Len(b)
        /\ \A i \in 1 .. Len(a) + Len(b) : ab[i] = IF i <= Len(a) THEN a[i] ELSE b[i - Len(a)]
    BY ConcatProperties
  <2> HIDE DEF ab
  <2>2. {1, 2, 3} \subseteq 1 .. Len(a) + Len(b)
    OBVIOUS
  <2> QED BY <2>1, <2>2
<1> HIDE DEF ab
<1>2. /\ abc \in Seq(Byte) /\ Len(abc) = 4
      /\ abc[1] = ab[1] /\ abc[2] = ab[2] /\ abc[3] = ab[3] /\ abc[4] = c[1]
  <2>1. /\ abc \in Seq(Byte) /\ Len(abc) = Len(ab) + Len(c)
        /\ \A i \in 1 .. Len(ab) + Len(c) : abc[i] = IF i <= Len(ab) THEN ab[i] ELSE c[i - Len(ab)]
    BY <1>1, ConcatProperties
  <2> HIDE DEF abc
  <2>2. {1, 2, 3, 4} \subseteq 1 .. Len(ab) + Len(c)
    BY <1>1
  <2> QED BY <1>1, <2>1, <2>2
<1> HIDE DEF abc
<1>3. /\ abcp \in Seq(Byte) /\ Len(abcp) = L + 4
      /\ \A i \in 1 .. 4 : abcp[i] = abc[i]
      /\ \A i \in 1 .. L : abcp[4 + i] = p[i]
  <2>1. /\ abcp \in Seq(Byte) /\ Len(abcp) = Len(abc) + L
        /\ \A i \in 1 .. Len(abc) + L : abcp[i] = IF i <= Len(abc) THEN abc[i] ELSE p[i - Len(abc)]
    BY <1>2, ConcatProperties
  <2> HIDE DEF abcp, L
  <2>2. \A i \in 1 .. 4 : i \in 1 .. Len(abc) + L /\ i <= Len(abc)
    BY <1>0, <1>2
  <2>3. ASSUME NEW i \in 1 .. L PROVE abcp[4 + i] = p[i]
    <3> DEFINE m == 4 + i
    <3>1. m \in 1 .. Len(abc) + L /\ ~(m <= Len(abc)) /\ m - Len(abc) = i
      BY <1>0, <1>2
    <3> HIDE DEF m
    <3> QED BY <2>1, <3>1 DEF m
  <2> QED BY <1>0, <1>2, <2>1, <2>2, <2>3
<1> HIDE DEF abcp
<1>4. /\ w \in Seq(Byte) /\ Len(w) = L + 5
      /\ \A i \in 1 .. L + 4 : w[i] = abcp[i]
      /\ w[L + 5] = d[1]
  <2>1. /\ w \in Seq(Byte) /\ Len(w) = Len(abcp) + Len(d)
        /\ \A i \in 1 .. Len(abcp) + Len(d) : w[i] = IF i <= Len(abcp) THEN abcp[i] ELSE d[i - Len(abcp)]
    BY <1>3, ConcatProperties
  <2> HIDE DEF w, L
  <2>2. \A i \in 1 .. L + 4 : i \in 1 .. Len(abcp) + Len(d) /\ i <= Len(abcp)
    BY <1>0, <1>3
  <2> DEFINE m == L + 5
  <2>3. m \in 1 .. Len(abcp) + Len(d) /\ ~(m <= Len(abcp)) /\ m - Len(abcp) = 1
    BY <1>0, <1>3
  <2> HIDE DEF m
  <2>4. w[m] = d[1]
    BY <2>1, <2>3
  <2> QED BY <1>0, <1>3, <2>1, <2>2, <2>4 DEF m
<1> HIDE DEF w, L
<1>5. {1, 2, 3, 4} \subseteq 1 .. L + 4 /\ \A i \in 1 .. L : 4 + i \in 1 .. L + 4
  BY <1>0
<1>6. w[1] = a[1] /\ w[2] = b[1] /\ w[3] = b[2] /\ w[4] = c[1]
  BY <1>1, <1>2, <1>3, <1>4, <1>5
<1>7. \A i \in 1 .. L : w[4 + i] = p[i]
  BY <1>3, <1>4, <1>5
<1>8. IsRow(w, a, b, c, p, d)
  BY <1>4, <1>6, <1>7 DEF IsRow, L
<1> QED BY <1>8 DEF w, abcp, abc, ab

\* A type with a payload after it, as the checksum is made of them.
LEMMA TypeFirst ==
    ASSUME NEW type \in Byte, NEW payload \in Seq(Byte)
    PROVE  /\ <<type>> \o payload \in Seq(Byte) /\ Len(<<type>> \o payload) = Len(payload) + 1
           /\ (<<type>> \o payload)[1] = type
           /\ \A i \in 2 .. Len(payload) + 1 : (<<type>> \o payload)[i] = payload[i - 1]
<1> DEFINE c == <<type>>
           s == c \o payload
           L == Len(payload)
<1>1. c \in Seq(Byte) /\ Len(c) = 1 /\ c[1] = type /\ L \in Nat
  OBVIOUS
<1> HIDE DEF c
<1>2. /\ s \in Seq(Byte) /\ Len(s) = Len(c) + L
      /\ \A i \in 1 .. Len(c) + L : s[i] = IF i <= Len(c) THEN c[i] ELSE payload[i - Len(c)]
  BY <1>1, ConcatProperties
<1> HIDE DEF s, L
<1>3. 1 \in 1 .. Len(c) + L /\ \A i \in 2 .. L + 1 : i \in 1 .. Len(c) + L /\ ~(i <= Len(c))
  BY <1>1
<1>4. Len(s) = L + 1 /\ s[1] = type /\ \A i \in 2 .. L + 1 : s[i] = payload[i - 1]
  BY <1>1, <1>2, <1>3
<1> QED BY <1>2, <1>4 DEF s, c, L

\* tezos_signer_frame_encode makes a frame.
LEMMA FrameOK ==
    ASSUME NEW type \in Byte, NEW payload \in Seq(Byte), Shifted(Len(payload) + 1, 2) = 0
    PROVE  IsFrame(Frame(type, payload), type, payload)
<1> DEFINE a == <<START>>
           b == BigEndian(Len(payload) + 1, 2)
           c == <<type>>
           d == <<Checksum(<<type>> \o payload)>>
           w == a \o b \o c \o payload \o d
<1>1. Len(payload) + 1 \in Nat /\ START \in Byte
  BY ByteOK DEF START
<1>2. b \in Seq(Byte) /\ Len(b) = 2 /\ Number(b) = Len(payload) + 1
  BY <1>1, BigEndianIsRead
<1>3. 2 * Half * b[1] + b[2] = Len(payload) + 1
  BY <1>2, TwoBytes
<1>4. Checksum(<<type>> \o payload) \in Byte
  <2>1. <<type>> \o payload \in Seq(Byte)
    BY TypeFirst
  <2> DEFINE s == <<type>> \o payload
  <2> HIDE DEF s
  <2>2. PICK x : Sums(x, s) /\ Checksum(s) = x[Len(s)]
    BY <2>1, ChecksumSums DEF s
  <2>3. Len(s) \in 0 .. Len(s)
    BY <2>1 DEF s
  <2>4. Checksum(s) \in Byte
    BY <2>2, <2>3 DEF Sums
  <2> QED BY <2>4 DEF s
<1>5. /\ a \in Seq(Byte) /\ Len(a) = 1 /\ a[1] = START
      /\ c \in Seq(Byte) /\ Len(c) = 1 /\ c[1] = type
      /\ d \in Seq(Byte) /\ Len(d) = 1 /\ d[1] = Checksum(<<type>> \o payload)
  BY <1>1, <1>4
<1>6. w = Frame(type, payload)
  BY DEF Frame
<1> HIDE DEF a, b, c, d
<1>7. IsRow(w, a, b, c, payload, d)
  BY <1>2, <1>5, InARow
<1> HIDE DEF w
<1> QED BY <1>3, <1>5, <1>6, <1>7 DEF IsFrame, IsRow

\* A piece of a sequence of bytes.
LEMMA PieceOK ==
    ASSUME NEW s \in Seq(Byte), NEW m \in Nat, NEW n \in Nat, 1 <= m, m <= n + 1, n <= Len(s)
    PROVE  /\ SubSeq(s, m, n) \in Seq(Byte) /\ Len(SubSeq(s, m, n)) = n + 1 - m
           /\ \A i \in 1 .. n + 1 - m : SubSeq(s, m, n)[i] = s[m - 1 + i]
<1> DEFINE u == SubSeq(s, m, n)
<1>1. \A i \in m .. n : i \in 1 .. Len(s)
  OBVIOUS
<1>2. \A i \in m .. n : s[i] \in Byte
  BY <1>1, ElementOfSeq
<1>3. /\ u \in Seq(Byte) /\ Len(u) = IF m <= n THEN n - m + 1 ELSE 0
      /\ \A i \in 1 .. n - m + 1 : u[i] = s[m + i - 1]
  BY <1>2, SubSeqProperties
<1> HIDE DEF u
<1>4. n - m + 1 = n + 1 - m /\ (~(m <= n) => n + 1 - m = 0) /\ \A i \in 1 .. n + 1 - m : m + i - 1 = m - 1 + i
  OBVIOUS
<1>5. \A i \in 1 .. n + 1 - m : u[i] = s[m - 1 + i]
  BY <1>3, <1>4
<1>6. Len(u) = n + 1 - m
  BY <1>3, <1>4
<1> QED BY <1>3, <1>5, <1>6 DEF u

\* What tezos_signer_frame_decode says, by the length that it reads.
LEMMA DecodeIs ==
    ASSUME NEW data \in Seq(Byte)
    PROVE  IF Len(data) < 5 THEN Decode(data) = <<>>
           ELSE LET len == 2 * Half * data[2] + data[3]
                IN  /\ len \in Nat
                    /\ Decode(data) =
                         IF \/ data[1] # START \/ len < 1 \/ Len(data) < len + 4
                            \/ Checksum(SubSeq(data, 4, 3 + len)) # data[4 + len]
                         THEN <<>> ELSE <<data[4], SubSeq(data, 5, 3 + len)>>
<1>1. CASE Len(data) < 5
  BY <1>1 DEF Decode
<1>2. CASE ~(Len(data) < 5)
  <2> DEFINE two == SubSeq(data, 2, 3)
             n == Number(two)
  <2>1. \A i \in 2 .. 3 : data[i] \in Byte
    <3>1. \A i \in 2 .. 3 : i \in 1 .. Len(data)
      BY <1>2
    <3> QED BY <3>1, ElementOfSeq
  <2>2. two \in Seq(Byte) /\ Len(two) = 2 /\ two[1] = data[2] /\ two[2] = data[3]
    <3>1. /\ two \in Seq(Byte) /\ Len(two) = IF 2 <= 3 THEN 3 - 2 + 1 ELSE 0
          /\ \A i \in 1 .. 3 - 2 + 1 : two[i] = data[2 + i - 1]
      BY <2>1, SubSeqProperties
    <3> HIDE DEF two
    <3>2. 1 \in 1 .. 3 - 2 + 1 /\ 2 \in 1 .. 3 - 2 + 1 /\ 2 + 1 - 1 = 2 /\ 2 + 2 - 1 = 3
      OBVIOUS
    <3>3. two[1] = data[2 + 1 - 1] /\ two[2] = data[2 + 2 - 1]
      BY <3>1, <3>2
    <3> QED BY <3>1, <3>2, <3>3
  <2>3. n = 2 * Half * data[2] + data[3] /\ n \in Nat
    <3> HIDE DEF two
    <3> QED BY <2>2, TwoBytes, NumberReads
  <2>4. Decode(data) = IF \/ data[1] # START \/ n < 1 \/ Len(data) < n + 4
                          \/ Checksum(SubSeq(data, 4, 3 + n)) # data[4 + n]
                       THEN <<>> ELSE <<data[4], SubSeq(data, 5, 3 + n)>>
    BY <1>2 DEF Decode
  <2> HIDE DEF n
  <2> QED BY <1>2, <2>3, <2>4
<1> QED BY <1>1, <1>2

\* The beginnings of a payload that its own next byte is the checksum of.
Passing(type, payload) ==
    {k \in 0 .. Len(payload) - 1 : Checksum(<<type>> \o SubSeq(payload, 1, k)) = payload[k + 1]}

\* What a frame of a type and a payload can be decoded as after the line failed.
Near(type, payload) ==
    {<<>>, <<type, payload>>} \cup {<<type, SubSeq(payload, 1, k)>> : k \in Passing(type, payload)}

\* A frame whose length alone may be wrong.
LEMMA DecodeAlike ==
    ASSUME NEW type \in Byte, NEW payload \in Seq(Byte), NEW w, IsFrame(w, type, payload),
           NEW v \in Seq(Byte), Len(v) = Len(w), \A i \in 4 .. Len(w) : v[i] = w[i]
    PROVE  Decode(v) \in Near(type, payload)
<1> DEFINE L == Len(payload)
           len == 2 * Half * v[2] + v[3]
<1>1. /\ L \in Nat /\ Len(v) = L + 5 /\ v[4] = type
      /\ \A i \in 1 .. L : v[4 + i] = payload[i]
      /\ v[L + 5] = Checksum(<<type>> \o payload)
  <2>1. L \in Nat /\ Len(w) = L + 5
    BY DEF IsFrame
  <2>2. 4 \in 4 .. Len(w) /\ L + 5 \in 4 .. Len(w) /\ \A i \in 1 .. L : 4 + i \in 4 .. Len(w)
    BY <2>1
  <2> QED BY <2>1, <2>2 DEF IsFrame
<1>2. /\ len \in Nat
      /\ Decode(v) =
           IF \/ v[1] # START \/ len < 1 \/ Len(v) < len + 4
              \/ Checksum(SubSeq(v, 4, 3 + len)) # v[4 + len]
           THEN <<>> ELSE <<v[4], SubSeq(v, 5, 3 + len)>>
  <2>1. ~(Len(v) < 5)
    BY <1>1
  <2> QED BY <2>1, DecodeIs
<1> HIDE DEF len
<1>3. CASE Decode(v) = <<>>
  BY <1>3 DEF Near
<1>4. CASE Decode(v) # <<>>
  <2> DEFINE k == len - 1
             b == SubSeq(payload, 1, k)
             s == SubSeq(v, 4, 3 + len)
             u == SubSeq(v, 5, 3 + len)
  <2>1. /\ len >= 1 /\ len + 4 <= L + 5 /\ k \in 0 .. L /\ len = k + 1
        /\ Checksum(s) = v[4 + len] /\ Decode(v) = <<type, u>>
    BY <1>1, <1>2, <1>4
  <2>2. /\ 3 + len \in Nat /\ 3 + len <= Len(v) /\ 4 <= 3 + len + 1 /\ 5 <= 3 + len + 1
        /\ 3 + len + 1 - 4 = k + 1 /\ 3 + len + 1 - 5 = k
        /\ k \in Nat /\ 1 <= k + 1 /\ k <= Len(payload) /\ k + 1 - 1 = k
    BY <1>1, <1>2, <2>1
  <2>3. /\ s \in Seq(Byte) /\ Len(s) = k + 1 /\ \A i \in 1 .. k + 1 : s[i] = v[3 + i]
    <3> DEFINE q == 3 + len
    <3> HIDE DEF q, k
    <3>1. /\ SubSeq(v, 4, q) \in Seq(Byte) /\ Len(SubSeq(v, 4, q)) = q + 1 - 4
          /\ \A i \in 1 .. q + 1 - 4 : SubSeq(v, 4, q)[i] = v[4 - 1 + i]
      BY <2>2, PieceOK DEF q
    <3>2. q + 1 - 4 = k + 1 /\ 4 - 1 = 3 /\ s = SubSeq(v, 4, q)
      BY <2>2 DEF q
    <3> HIDE DEF s
    <3> QED BY <3>1, <3>2
  <2>4. /\ u \in Seq(Byte) /\ Len(u) = k /\ \A i \in 1 .. k : u[i] = v[4 + i]
    <3> DEFINE q == 3 + len
    <3> HIDE DEF q, k
    <3>1. /\ SubSeq(v, 5, q) \in Seq(Byte) /\ Len(SubSeq(v, 5, q)) = q + 1 - 5
          /\ \A i \in 1 .. q + 1 - 5 : SubSeq(v, 5, q)[i] = v[5 - 1 + i]
      BY <2>2, PieceOK, SMTT(30) DEF q
    <3>2. q + 1 - 5 = k /\ 5 - 1 = 4 /\ u = SubSeq(v, 5, q)
      BY <2>2 DEF q
    <3> HIDE DEF u
    <3> QED BY <3>1, <3>2
  <2>5. /\ b \in Seq(Byte) /\ Len(b) = k /\ \A i \in 1 .. k : b[i] = payload[i]
    <3> HIDE DEF k
    <3>1. /\ b \in Seq(Byte) /\ Len(b) = k + 1 - 1
          /\ \A i \in 1 .. k + 1 - 1 : b[i] = payload[1 - 1 + i]
      BY <2>2, PieceOK
    <3>2. \A i \in 1 .. k : 1 - 1 + i = i
      OBVIOUS
    <3> HIDE DEF b
    <3> QED BY <2>2, <3>1, <3>2
  <2> HIDE DEF b, s, u, k
  <2>6. u = b
    <3>1. \A i \in 1 .. k : i \in 1 .. L
      BY <1>1, <2>1
    <3>2. \A i \in 1 .. Len(u) : u[i] = b[i]
      BY <1>1, <2>4, <2>5, <3>1
    <3> QED BY <2>4, <2>5, <3>2, SeqEqual
  <2>7. s = <<type>> \o b
    <3> DEFINE z == <<type>> \o b
    <3>1. /\ z \in Seq(Byte) /\ Len(z) = k + 1 /\ z[1] = type
          /\ \A i \in 2 .. k + 1 : z[i] = b[i - 1]
      BY <2>5, TypeFirst
    <3> HIDE DEF z
    <3>2. ASSUME NEW i \in 1 .. k + 1 PROVE s[i] = z[i]
      <4>1. CASE i = 1
        <5>1. s[1] = v[3 + 1] /\ 3 + 1 = 4
          BY <2>1, <2>3
        <5> QED BY <1>1, <3>1, <4>1, <5>1
      <4>2. CASE i # 1
        <5> DEFINE j == i - 1
        <5>1. i \in 2 .. k + 1 /\ j \in 1 .. k /\ j \in 1 .. L /\ 3 + i = 4 + j
          BY <1>1, <2>1, <4>2
        <5> HIDE DEF j
        <5>2. s[i] = v[4 + j] /\ z[i] = b[j]
          BY <2>3, <3>1, <5>1 DEF j
        <5> QED BY <1>1, <2>5, <5>1, <5>2
      <4> QED BY <4>1, <4>2
    <3>3. s = z
      BY <2>3, <3>1, <3>2, SeqEqual
    <3> QED BY <3>3 DEF z
  <2>8. CASE k = L
    <3>1. b = payload
      BY <2>8, SubSeqFull DEF b
    <3> QED BY <2>1, <2>6, <3>1 DEF Near
  <2>9. CASE k # L
    <3>1. k \in 0 .. L - 1 /\ k + 1 \in 1 .. L /\ 4 + len = 4 + (k + 1)
      BY <1>1, <2>1, <2>9
    <3>2. Checksum(<<type>> \o b) = payload[k + 1]
      BY <1>1, <2>1, <2>7, <3>1
    <3>3. k \in Passing(type, payload)
      BY <3>1, <3>2 DEF Passing, b
    <3>4. Decode(v) = <<type, SubSeq(payload, 1, k)>>
      BY <2>1, <2>6 DEF b
    <3> QED BY <3>3, <3>4 DEF Near
  <2> QED BY <2>8, <2>9
<1> QED BY <1>3, <1>4

\* A frame of which a byte was changed.
LEMMA ChangedIsNear ==
    ASSUME NEW type \in Byte, NEW payload \in Seq(Byte), NEW w, IsFrame(w, type, payload),
           NEW place \in 1 .. Len(w), NEW byte \in Byte
    PROVE  Decode([w EXCEPT ![place] = byte]) \in Near(type, payload)
<1> DEFINE v == [w EXCEPT ![place] = byte]
           L == Len(payload)
<1>1. /\ w \in Seq(Byte) /\ L \in Nat /\ Len(w) = L + 5
      /\ v \in Seq(Byte) /\ Len(v) = L + 5 /\ v[place] = byte
      /\ \A i \in 1 .. L + 5 : i # place => v[i] = w[i]
  BY DEF IsFrame
<1> HIDE DEF v
<1>2. CASE place <= 3 \/ byte = w[place]
  <2>1. \A i \in 4 .. Len(w) : v[i] = w[i]
    BY <1>1, <1>2
  <2>2. Len(v) = Len(w)
    BY <1>1
  <2>3. Decode(v) \in Near(type, payload)
    BY <1>1, <2>1, <2>2, DecodeAlike
  <2> QED BY <2>3 DEF v
<1>3. CASE place > 3 /\ byte # w[place]
  <2> DEFINE len == 2 * Half * v[2] + v[3]
             q == L + 4
             s == SubSeq(v, 4, q)
             z == <<type>> \o payload
  <2>1. v[1] = w[1] /\ v[2] = w[2] /\ v[3] = w[3] /\ place \in 4 .. L + 5
    BY <1>1, <1>3
  <2>2. len = L + 1 /\ v[1] = START
    BY <2>1 DEF IsFrame
  <2>3. Decode(v) = IF \/ v[1] # START \/ len < 1 \/ Len(v) < len + 4
                       \/ Checksum(SubSeq(v, 4, 3 + len)) # v[4 + len]
                    THEN <<>> ELSE <<v[4], SubSeq(v, 5, 3 + len)>>
    <3>1. ~(Len(v) < 5)
      BY <1>1
    <3> QED BY <1>1, <3>1, DecodeIs
  <2> HIDE DEF len
  <2>4. 3 + len = q /\ 4 + len = L + 5
    BY <1>1, <2>2
  <2>5. Decode(v) = <<>> \/ Checksum(s) = v[L + 5]
    BY <2>3, <2>4
  <2>6. /\ s \in Seq(Byte) /\ Len(s) = L + 1 /\ \A i \in 1 .. L + 1 : s[i] = v[3 + i]
    <3>1. q \in Nat /\ 4 \in Nat /\ 1 <= 4 /\ 4 <= q + 1 /\ q <= Len(v) /\ q + 1 - 4 = L + 1 /\ 4 - 1 = 3
      BY <1>1
    <3> HIDE DEF q
    <3>2. /\ s \in Seq(Byte) /\ Len(s) = q + 1 - 4
          /\ \A i \in 1 .. q + 1 - 4 : s[i] = v[4 - 1 + i]
      BY <1>1, <3>1, PieceOK
    <3> HIDE DEF s
    <3> QED BY <3>1, <3>2
  <2>7. /\ z \in Seq(Byte) /\ Len(z) = L + 1 /\ z[1] = type
        /\ \A i \in 2 .. L + 1 : z[i] = payload[i - 1]
    BY TypeFirst
  <2> HIDE DEF s, z, q
  <2>8. \A i \in 1 .. L + 1 : z[i] = w[3 + i]
    <3> TAKE i \in 1 .. L + 1
    <3>1. CASE i = 1
      <4>1. z[1] = w[4] /\ 3 + 1 = 4
        BY <2>7 DEF IsFrame
      <4> QED BY <3>1, <4>1
    <3>2. CASE i # 1
      <4> DEFINE j == i - 1
      <4>1. i \in 2 .. L + 1 /\ j \in 1 .. L /\ 4 + j = 3 + i
        BY <1>1, <3>2
      <4>2. z[i] = payload[j]
        BY <2>7, <4>1
      <4> HIDE DEF j
      <4>3. payload[j] = w[4 + j]
        BY <4>1 DEF IsFrame
      <4> QED BY <4>1, <4>2, <4>3
    <3> QED BY <3>1, <3>2
  <2>9. w[L + 5] = Checksum(z)
    BY DEF IsFrame, z
  <2>10. CASE place = L + 5
    <3>1. \A i \in 1 .. L + 1 : 3 + i \in 1 .. L + 5 /\ 3 + i # place
      BY <1>1, <2>10
    <3>2. \A i \in 1 .. Len(s) : s[i] = z[i]
      BY <1>1, <2>6, <2>8, <3>1
    <3>3. s = z
      BY <2>6, <2>7, <3>2, SeqEqual
    <3>4. Decode(v) = <<>>
      BY <1>1, <1>3, <2>5, <2>9, <2>10, <3>3
    <3> QED BY <3>4 DEF Near, v
  <2>11. CASE place # L + 5
    <3> DEFINE at == place - 3
    <3>1. at \in 1 .. L + 1 /\ 3 + at = place /\ \A i \in 1 .. L + 1 : 3 + i \in 1 .. L + 5 /\ (i # at => 3 + i # place)
      BY <1>1, <2>1, <2>11
    <3> HIDE DEF at
    <3>2. \A i \in 1 .. L + 1 : i # at => s[i] = z[i]
      BY <1>1, <2>6, <2>8, <3>1
    <3>3. s[at] # z[at]
      BY <1>1, <1>3, <2>6, <2>8, <3>1
    <3>4. DifferAt(s, z, at)
      BY <2>6, <2>7, <3>1, <3>2, <3>3 DEF DifferAt
    <3>5. Checksum(s) # Checksum(z)
      BY <2>6, <2>7, <3>4, ChecksumDiffers
    <3>6. v[L + 5] = w[L + 5]
      BY <1>1, <2>11
    <3>7. Decode(v) = <<>>
      BY <2>5, <2>9, <3>5, <3>6
    <3> QED BY <3>7 DEF Near, v
  <2> QED BY <2>10, <2>11
<1>4. place <= 3 \/ place > 3
  OBVIOUS
<1> QED BY <1>2, <1>3, <1>4

\* A frame that was cut.
LEMMA CutIsNone ==
    ASSUME NEW type, NEW payload \in Seq(Byte), NEW w, IsFrame(w, type, payload),
           NEW n \in 0 .. Len(w) - 1
    PROVE  Decode(SubSeq(w, 1, n)) = <<>>
<1> DEFINE v == SubSeq(w, 1, n)
           L == Len(payload)
           len == 2 * Half * v[2] + v[3]
<1>1. w \in Seq(Byte) /\ L \in Nat /\ Len(w) = L + 5 /\ n \in Nat /\ n < L + 5
  BY DEF IsFrame
<1>2. 1 \in Nat /\ 1 <= n + 1 /\ n <= Len(w) /\ n + 1 - 1 = n /\ 1 - 1 = 0 /\ \A i \in 1 .. n : 0 + i = i
  BY <1>1
<1>3. v \in Seq(Byte) /\ Len(v) = n /\ \A i \in 1 .. n : v[i] = w[i]
  <2>1. v \in Seq(Byte) /\ Len(v) = n + 1 - 1 /\ \A i \in 1 .. n + 1 - 1 : v[i] = w[1 - 1 + i]
    BY <1>1, <1>2, PieceOK
  <2> HIDE DEF v
  <2> QED BY <1>2, <2>1
<1> HIDE DEF v
<1>4. CASE n < 5
  BY <1>3, <1>4, DecodeIs DEF v
<1>5. CASE ~(n < 5)
  <2>1. v[2] = w[2] /\ v[3] = w[3]
    BY <1>1, <1>3, <1>5
  <2>2. len = L + 1
    BY <2>1 DEF IsFrame
  <2>3. Decode(v) = IF \/ v[1] # START \/ len < 1 \/ Len(v) < len + 4
                       \/ Checksum(SubSeq(v, 4, 3 + len)) # v[4 + len]
                    THEN <<>> ELSE <<v[4], SubSeq(v, 5, 3 + len)>>
    BY <1>3, <1>5, DecodeIs
  <2> HIDE DEF len
  <2>4. Len(v) < len + 4
    BY <1>1, <1>3, <2>2
  <2> QED BY <2>3, <2>4 DEF v
<1> QED BY <1>4, <1>5

\* What is small enough for two bytes, so is what is smaller.
LEMMA SmallerFits ==
    ASSUME NEW n \in Nat, NEW m \in Nat, m <= n, Shifted(n, 2) = 0
    PROVE  Shifted(m, 2) = 0
<1>1. \A b, x, y \in Nat : b > 0 /\ x <= y => x \div b <= y \div b
  <2> TAKE b, x, y \in Nat
  <2> HAVE b > 0 /\ x <= y
  <2> DEFINE q == x \div b
             r == y \div b
  <2>1. q \in Nat /\ r \in Nat /\ b * q <= x /\ y < b * r + b
    OBVIOUS
  <2> HIDE DEF q, r
  <2>2. ASSUME q > r PROVE FALSE
    <3>1. PICK d \in Nat : q = r + 1 + d
      <4>1. q - r - 1 \in Nat /\ q = r + 1 + (q - r - 1)
        BY <2>1, <2>2
      <4> QED BY <4>1
    <3>2. b * q = b * r + b + b * d /\ b * d >= 0
      BY <2>1, <3>1
    <3> QED BY <2>1, <3>2
  <2>3. q <= r
    BY <2>1, <2>2
  <2> QED BY <2>3 DEF q, r
<1> DEFINE b == 2 * Half
<1>2. b \in Nat /\ b > 0
  BY ByteOK
<1>3. ASSUME NEW k \in Nat
      PROVE  /\ Shifted(k, 1) \in Nat /\ Shifted(k, 2) \in Nat
             /\ Shifted(k, 1) = k \div b /\ Shifted(k, 2) = Shifted(k, 1) \div b
  <2>1. /\ Shifted(k, 0) = k
        /\ \A i \in Nat : Shifted(k, i) \in Nat /\ Shifted(k, i + 1) = Shifted(k, i) \div b
    BY ShiftedSteps
  <2>2. Shifted(k, 0 + 1) = Shifted(k, 0) \div b /\ Shifted(k, 1 + 1) = Shifted(k, 1) \div b
    BY <2>1
  <2> QED BY <2>1, <2>2
<1> HIDE DEF b
<1>4. Shifted(m, 1) <= Shifted(n, 1)
  BY <1>1, <1>2, <1>3, SMTT(30)
<1>5. Shifted(m, 2) <= Shifted(n, 2)
  BY <1>1, <1>2, <1>3, <1>4
<1> QED BY <1>3, <1>5

\* Five bytes of payload can be framed.
LEMMA FewFit == \A n \in 0 .. 6 : Shifted(n, 2) = 0
<1>1. AccountBytes + 1 \in Nat
  BY FrameAssumption
<1> DEFINE b == 2 * Half
<1>2. b \in Nat /\ b > 15
  BY ByteOK
<1>3. \A n \in 0 .. 6 : n \div b = 0 /\ 0 \div b = 0
  <2> HIDE DEF b
  <2> QED BY <1>2
<1>4. ASSUME NEW n \in 0 .. 6 PROVE Shifted(n, 2) = 0
  <2>1. n \in Nat /\ 0 + 1 = 1 /\ 1 + 1 = 2
    OBVIOUS
  <2>2. Shifted(n, 1) = n \div b
    BY <2>1, ShiftedSteps
  <2>3. Shifted(n, 2) = Shifted(n, 1) \div b
    BY <2>1, ShiftedSteps
  <2> QED BY <1>3, <2>2, <2>3
<1> QED BY <1>4

\* What the wallet can ask.
LEMMA InquiryOK ==
    ASSUME NEW request \in Inquiries
    PROVE  /\ request.kind \in {PING, GET_ADDRESS, SIGN_REQUEST}
           /\ request.kind # PING =>
                 /\ request.account \in Accounts /\ request.account \in Nat
                 /\ Shifted(request.account, AccountBytes) = 0
           /\ request.kind = SIGN_REQUEST =>
                 /\ request.bytes \in Payloads /\ request.bytes \in Seq(Byte)
                 /\ Shifted(AccountBytes + Len(request.bytes) + 3, 2) = 0
                 /\ Shifted(Len(request.bytes), 2) = 0
<1>1. /\ Accounts \subseteq Nat /\ Payloads \subseteq Seq(Byte) /\ AccountBytes \in Nat
      /\ \A account \in Accounts : Shifted(account, AccountBytes) = 0
      /\ \A bytes \in Payloads : Shifted(AccountBytes + Len(bytes) + 3, 2) = 0
  BY FrameAssumption
<1>2. /\ request.kind \in {PING, GET_ADDRESS, SIGN_REQUEST}
      /\ request.kind # PING => request.account \in Accounts
      /\ request.kind = SIGN_REQUEST => request.bytes \in Payloads
  BY DEF Inquiries, PING, GET_ADDRESS, SIGN_REQUEST
<1>3. ASSUME NEW bytes \in Payloads PROVE Shifted(Len(bytes), 2) = 0
  <2>1. AccountBytes + Len(bytes) + 3 \in Nat /\ Len(bytes) \in Nat /\ Len(bytes) <= AccountBytes + Len(bytes) + 3
    BY <1>1
  <2> QED BY <1>1, <2>1, SmallerFits
<1> QED BY <1>1, <1>2, <1>3

\* The parts of a request to sign.
LEMMA SignBody ==
    ASSUME NEW request \in Inquiries, request.kind = SIGN_REQUEST
    PROVE  LET p == Body(request)
               account == BigEndian(request.account, AccountBytes)
               size == BigEndian(Len(request.bytes), 2)
           IN  /\ p \in Seq(Byte) /\ Len(p) = AccountBytes + 2 + Len(request.bytes)
               /\ \A i \in 1 .. AccountBytes : p[i] = account[i]
               /\ \A i \in 1 .. 2 : p[AccountBytes + i] = size[i]
               /\ \A i \in 1 .. Len(request.bytes) : p[AccountBytes + 2 + i] = request.bytes[i]
<1> DEFINE a == BigEndian(request.account, AccountBytes)
           b == BigEndian(Len(request.bytes), 2)
           c == request.bytes
           ab == a \o b
           p == ab \o c
           A == AccountBytes
           C == Len(c)
<1>1. Body(request) = p
  <2>1. request.kind # PING /\ request.kind # GET_ADDRESS
    BY DEF PING, GET_ADDRESS, SIGN_REQUEST
  <2> HIDE DEF a, b, c
  <2>2. Body(request) = a \o b \o c
    BY <2>1, Zenon DEF Body, a, b, c
  <2> QED BY <2>2
<1>2. SIGN_REQUEST # PING /\ A \in Nat
  BY FrameAssumption DEF SIGN_REQUEST, PING
<1>3. c \in Seq(Byte) /\ C \in Nat /\ Shifted(C, 2) = 0 /\ request.account \in Nat /\ Shifted(request.account, A) = 0
  BY <1>2, InquiryOK
<1>4. a \in Seq(Byte) /\ Len(a) = A /\ b \in Seq(Byte) /\ Len(b) = 2
  BY <1>2, <1>3, BigEndianIsRead
<1> HIDE DEF a, b, c, A, C
<1>5. /\ ab \in Seq(Byte) /\ Len(ab) = A + 2
      /\ \A i \in 1 .. A + 2 : ab[i] = IF i <= A THEN a[i] ELSE b[i - A]
  <2>1. /\ ab \in Seq(Byte) /\ Len(ab) = Len(a) + Len(b)
        /\ \A i \in 1 .. Len(a) + Len(b) : ab[i] = IF i <= Len(a) THEN a[i] ELSE b[i - Len(a)]
    BY <1>4, ConcatProperties
  <2> HIDE DEF ab
  <2> QED BY <1>4, <2>1
<1>6. Len(c) = C
  BY DEF C
<1> HIDE DEF ab
<1>7. /\ p \in Seq(Byte) /\ Len(p) = A + 2 + C
      /\ \A i \in 1 .. A + 2 + C : p[i] = IF i <= A + 2 THEN ab[i] ELSE c[i - (A + 2)]
  <2>1. /\ p \in Seq(Byte) /\ Len(p) = Len(ab) + Len(c)
        /\ \A i \in 1 .. Len(ab) + Len(c) : p[i] = IF i <= Len(ab) THEN ab[i] ELSE c[i - Len(ab)]
    BY <1>3, <1>5, ConcatProperties
  <2> HIDE DEF p
  <2> QED BY <1>5, <1>6, <2>1
<1> HIDE DEF p
<1>8. \A i \in 1 .. A : p[i] = a[i]
  <2>1. \A i \in 1 .. A : i \in 1 .. A + 2 + C /\ i \in 1 .. A + 2 /\ i <= A + 2 /\ i <= A
    BY <1>2, <1>3
  <2> QED BY <1>5, <1>7, <2>1
<1>9. \A i \in 1 .. 2 : p[A + i] = b[i]
  <2> TAKE i \in 1 .. 2
  <2> DEFINE m == A + i
  <2>1. m \in 1 .. A + 2 + C /\ m \in 1 .. A + 2 /\ m <= A + 2 /\ ~(m <= A) /\ m - A = i
    BY <1>2, <1>3
  <2> HIDE DEF m
  <2>2. p[m] = b[i]
    BY <1>5, <1>7, <2>1
  <2> QED BY <2>2 DEF m
<1>10. \A i \in 1 .. C : p[A + 2 + i] = c[i]
  <2> TAKE i \in 1 .. C
  <2> DEFINE m == A + 2 + i
  <2>1. m \in 1 .. A + 2 + C /\ ~(m <= A + 2) /\ m - (A + 2) = i
    BY <1>2, <1>3
  <2> HIDE DEF m
  <2>2. p[m] = c[i]
    BY <1>7, <2>1
  <2> QED BY <2>2 DEF m
<1> QED BY <1>1, <1>7, <1>8, <1>9, <1>10 DEF a, b, c, A, C

\* Every request can be framed.
LEMMA BodyOK ==
    ASSUME NEW request \in Inquiries
    PROVE  /\ request.kind \in Byte /\ Body(request) \in Seq(Byte)
           /\ Shifted(Len(Body(request)) + 1, 2) = 0
<1>1. request.kind \in {PING, GET_ADDRESS, SIGN_REQUEST}
  BY InquiryOK
<1>2. request.kind \in Byte
  <2>1. {1, 2, 3} \subseteq Byte
    BY ByteOK
  <2> QED BY <1>1, <2>1 DEF PING, GET_ADDRESS, SIGN_REQUEST
<1>3. AccountBytes \in Nat /\ Shifted(AccountBytes + 1, 2) = 0
  BY FrameAssumption
<1>4. CASE request.kind = PING
  <2>0. PING # GET_ADDRESS /\ PING # SIGN_REQUEST /\ GET_ADDRESS # SIGN_REQUEST
    BY DEF PING, GET_ADDRESS, SIGN_REQUEST
  <2>1. Body(request) = <<>>
    BY <1>4, <2>0, Zenon DEF Body
  <2>2. Len(<<>>) + 1 = 1 /\ 1 \in 0 .. 6
    OBVIOUS
  <2> QED BY <1>2, <2>1, <2>2, FewFit
<1>5. CASE request.kind = GET_ADDRESS
  <2>0. PING # GET_ADDRESS /\ PING # SIGN_REQUEST /\ GET_ADDRESS # SIGN_REQUEST
    BY DEF PING, GET_ADDRESS, SIGN_REQUEST
  <2>1. Body(request) = BigEndian(request.account, AccountBytes) /\ request.kind # PING
    BY <1>5, <2>0, Zenon DEF Body
  <2>2. request.account \in Nat /\ Shifted(request.account, AccountBytes) = 0
    BY <2>1, InquiryOK
  <2>3. Body(request) \in Seq(Byte) /\ Len(Body(request)) = AccountBytes
    BY <1>3, <2>1, <2>2, BigEndianIsRead
  <2> QED BY <1>2, <1>3, <2>3
<1>6. CASE request.kind = SIGN_REQUEST
  <2>1. Body(request) \in Seq(Byte) /\ Len(Body(request)) = AccountBytes + 2 + Len(request.bytes)
    BY <1>6, SignBody
  <2>2. Shifted(AccountBytes + Len(request.bytes) + 3, 2) = 0 /\ Len(request.bytes) \in Nat
    BY <1>6, InquiryOK
  <2> DEFINE L == Len(Body(request))
  <2>3. L + 1 = AccountBytes + Len(request.bytes) + 3
    <3> DEFINE M == Len(request.bytes)
    <3>1. L = AccountBytes + 2 + M /\ M \in Nat
      BY <2>1, <2>2
    <3> HIDE DEF L, M
    <3>2. L + 1 = AccountBytes + M + 3
      BY <1>3, <3>1
    <3> QED BY <3>2 DEF M
  <2> QED BY <1>2, <2>1, <2>2, <2>3
<1> QED BY <1>1, <1>4, <1>5, <1>6

\* What the signer may answer to a request: <<type, payload>>.
Replies(request) ==
    {<<ERROR, <<code, 2, 5, 6>>>> : code \in {MALFORMED_ERR, UNKNOWN_ERR, INTERNAL_ERR}}
    \cup IF request.kind = PING THEN {<<AnswerTo(PING), <<Len(Version)>> \o Version>>}
         ELSE IF request.account \in NoAccounts THEN {}
         ELSE IF request.kind = GET_ADDRESS
         THEN {<<AnswerTo(GET_ADDRESS), Address(request.account)>>}
         ELSE {<<AnswerTo(SIGN_REQUEST), Signature(request.account, request.bytes)>>}

\* An error is one of them.
LEMMA FailureReplies ==
    ASSUME NEW request, NEW code \in {MALFORMED_ERR, UNKNOWN_ERR, INTERNAL_ERR}
    PROVE  \E r \in Replies(request) : Failure(code) = Frame(r[1], r[2])
<1> DEFINE r == <<ERROR, <<code, 2, 5, 6>>>>
<1>1. r \in Replies(request)
  BY DEF Replies
<1>2. Failure(code) = Frame(r[1], r[2])
  BY DEF Failure
<1> QED BY <1>1, <1>2

\* The signer answers a request to sign, also one that was cut short inside.
LEMMA SignAnswered ==
    ASSUME NEW request \in Inquiries, request.kind = SIGN_REQUEST, NEW k \in 0 .. Len(Body(request))
    PROVE  \E r \in Replies(request) :
              AnswerSign(SubSeq(Body(request), 1, k)) = Frame(r[1], r[2])
<1> DEFINE p == Body(request)
           q == SubSeq(p, 1, k)
           A == AccountBytes
           bytes == request.bytes
           first == SubSeq(q, 1, A)
           two == SubSeq(q, A + 1, A + 2)
           rest == SubSeq(q, A + 3, Len(q))
           account == BigEndian(request.account, A)
           size == BigEndian(Len(bytes), 2)
<1>1. A \in Nat /\ request.kind # PING /\ request.kind # GET_ADDRESS
  BY FrameAssumption DEF PING, GET_ADDRESS, SIGN_REQUEST
<1>2. /\ bytes \in Seq(Byte) /\ Len(bytes) \in Nat /\ Shifted(Len(bytes), 2) = 0
      /\ request.account \in Nat /\ Shifted(request.account, A) = 0
  BY <1>1, InquiryOK
<1>3. /\ p \in Seq(Byte) /\ Len(p) = A + 2 + Len(bytes)
      /\ \A i \in 1 .. A : p[i] = account[i]
      /\ \A i \in 1 .. 2 : p[A + i] = size[i]
      /\ \A i \in 1 .. Len(bytes) : p[A + 2 + i] = bytes[i]
  BY SignBody
<1>4. /\ account \in Seq(Byte) /\ Len(account) = A /\ Number(account) = request.account
      /\ size \in Seq(Byte) /\ Len(size) = 2 /\ Number(size) = Len(bytes)
  BY <1>1, <1>2, BigEndianIsRead
<1> HIDE DEF p, account, size, bytes
<1>5. q \in Seq(Byte) /\ Len(q) = k /\ k \in Nat /\ k <= Len(p) /\ \A i \in 1 .. k : q[i] = p[i]
  <2>1. k \in Nat /\ 1 \in Nat /\ 1 <= 1 /\ 1 <= k + 1 /\ k <= Len(p) /\ k + 1 - 1 = k /\ \A i \in 1 .. k : 1 - 1 + i = i
    BY DEF p
  <2>2. q \in Seq(Byte) /\ Len(q) = k + 1 - 1 /\ \A i \in 1 .. k + 1 - 1 : q[i] = p[1 - 1 + i]
    BY <1>3, <2>1, PieceOK
  <2> HIDE DEF q
  <2> QED BY <2>1, <2>2
<1> HIDE DEF q
<1>6. CASE k < A + 2
  <2>1. AnswerSign(q) = Failure(MALFORMED_ERR)
    BY <1>5, <1>6 DEF AnswerSign
  <2> QED BY <2>1, FailureReplies DEF q, p
<1>7. CASE ~(k < A + 2)
  <2>1. first = account
    <3>1. A \in Nat /\ 1 \in Nat /\ 1 <= 1 /\ 1 <= A + 1 /\ A <= Len(q) /\ A + 1 - 1 = A /\ \A i \in 1 .. A : 1 - 1 + i = i
      BY <1>1, <1>5, <1>7
    <3>2. first \in Seq(Byte) /\ Len(first) = A + 1 - 1 /\ \A i \in 1 .. A + 1 - 1 : first[i] = q[1 - 1 + i]
      BY <1>5, <3>1, PieceOK
    <3> HIDE DEF first
    <3>3. \A i \in 1 .. A : i \in 1 .. k
      BY <1>1, <1>5, <1>7
    <3>4. \A i \in 1 .. Len(first) : first[i] = account[i]
      BY <1>3, <1>5, <3>1, <3>2, <3>3
    <3> QED BY <1>4, <3>1, <3>2, <3>4, SeqEqual
  <2>2. two = size
    <3> DEFINE m == A + 1
               n == A + 2
    <3>1. m \in Nat /\ n \in Nat /\ 1 <= m /\ m <= n + 1 /\ n <= Len(q) /\ n + 1 - m = 2
          /\ \A i \in 1 .. 2 : m - 1 + i = A + i /\ A + i \in 1 .. k
      BY <1>1, <1>5, <1>7
    <3> HIDE DEF m, n
    <3>2. SubSeq(q, m, n) \in Seq(Byte) /\ Len(SubSeq(q, m, n)) = n + 1 - m
          /\ \A i \in 1 .. n + 1 - m : SubSeq(q, m, n)[i] = q[m - 1 + i]
      BY <1>5, <3>1, PieceOK
    <3>3. two = SubSeq(q, m, n)
      BY DEF m, n
    <3> HIDE DEF two
    <3>4. two \in Seq(Byte) /\ Len(two) = 2 /\ \A i \in 1 .. 2 : two[i] = p[A + i]
      BY <1>5, <3>1, <3>2, <3>3
    <3>5. \A i \in 1 .. Len(two) : two[i] = size[i]
      BY <1>3, <3>4
    <3> QED BY <1>4, <3>4, <3>5, SeqEqual
  <2> HIDE DEF first, two, rest
  <2>3. AnswerSign(q) =
           IF Len(q) < A + 2 \/ Len(q) # A + 2 + Len(bytes) THEN Failure(MALFORMED_ERR)
           ELSE IF request.account \in NoAccounts THEN Failure(INTERNAL_ERR)
           ELSE Frame(AnswerTo(SIGN_REQUEST), Signature(request.account, rest))
    BY <1>4, <2>1, <2>2 DEF AnswerSign, first, two, rest
  <2>4. CASE k # Len(p)
    <3>1. AnswerSign(q) = Failure(MALFORMED_ERR)
      BY <1>3, <1>5, <2>3, <2>4
    <3> QED BY <3>1, FailureReplies DEF q, p
  <2>5. CASE k = Len(p) /\ request.account \in NoAccounts
    <3>1. AnswerSign(q) = Failure(INTERNAL_ERR)
      BY <1>1, <1>2, <1>3, <1>5, <1>7, <2>3, <2>5
    <3> QED BY <3>1, FailureReplies DEF q, p
  <2>6. CASE k = Len(p) /\ request.account \notin NoAccounts
    <3>1. rest = bytes
      <4> DEFINE m == A + 3
      <4>1. m \in Nat /\ k \in Nat /\ 1 <= m /\ m <= k + 1 /\ k <= Len(q) /\ k + 1 - m = Len(bytes)
            /\ \A i \in 1 .. Len(bytes) : m - 1 + i = A + 2 + i /\ A + 2 + i \in 1 .. k
        BY <1>1, <1>2, <1>3, <1>5, <2>6
      <4> HIDE DEF m
      <4>2. SubSeq(q, m, k) \in Seq(Byte) /\ Len(SubSeq(q, m, k)) = k + 1 - m
            /\ \A i \in 1 .. k + 1 - m : SubSeq(q, m, k)[i] = q[m - 1 + i]
        BY <1>5, <4>1, PieceOK
      <4>3. rest = SubSeq(q, m, k)
        BY <1>5 DEF m, rest
      <4>4. rest \in Seq(Byte) /\ Len(rest) = Len(bytes)
            /\ \A i \in 1 .. Len(bytes) : rest[i] = q[m - 1 + i]
        BY <4>1, <4>2, <4>3
      <4>5. \A i \in 1 .. Len(bytes) : q[m - 1 + i] = bytes[i]
        BY <1>3, <1>5, <4>1
      <4>6. \A i \in 1 .. Len(rest) : rest[i] = bytes[i]
        BY <4>4, <4>5
      <4> QED BY <1>2, <4>4, <4>6, SeqEqual
    <3>2. AnswerSign(q) = Frame(AnswerTo(SIGN_REQUEST), Signature(request.account, bytes))
      BY <1>1, <1>2, <1>3, <1>5, <1>7, <2>3, <2>6, <3>1
    <3> DEFINE r == <<AnswerTo(SIGN_REQUEST), Signature(request.account, bytes)>>
    <3>3. r \in Replies(request)
      BY <1>1, <2>6 DEF Replies, bytes
    <3>4. AnswerSign(q) = Frame(r[1], r[2])
      BY <3>2
    <3> QED BY <3>3, <3>4 DEF q, p
  <2> QED BY <2>4, <2>5, <2>6
<1> QED BY <1>6, <1>7

\* Whatever frame reaches the signer for a request, it answers with one of its replies.
LEMMA RequestAnswered ==
    ASSUME NEW request \in Inquiries, NEW frame \in Near(request.kind, Body(request)), frame # <<>>
    PROVE  \E r \in Replies(request) : Answer(frame[1], frame[2]) = Frame(r[1], r[2])
<1> DEFINE p == Body(request)
<1>1. p \in Seq(Byte) /\ Len(p) \in Nat
  BY BodyOK
<1>2. PICK k \in 0 .. Len(p) : frame = <<request.kind, SubSeq(p, 1, k)>>
  <2>1. CASE frame = <<request.kind, p>>
    <3>1. p = SubSeq(p, 1, Len(p)) /\ Len(p) \in 0 .. Len(p)
      BY <1>1, SubSeqFull
    <3> HIDE DEF p
    <3> QED BY <2>1, <3>1
  <2>2. CASE \E k \in Passing(request.kind, p) : frame = <<request.kind, SubSeq(p, 1, k)>>
    <3>1. \A k \in Passing(request.kind, p) : k \in 0 .. Len(p)
      BY <1>1 DEF Passing
    <3> QED BY <2>2, <3>1
  <2>3. frame = <<request.kind, p>> \/ \E k \in Passing(request.kind, p) : frame = <<request.kind, SubSeq(p, 1, k)>>
    <3> HIDE DEF p
    <3>1. frame \in Near(request.kind, p)
      BY DEF p
    <3>2. frame # <<>>
      OBVIOUS
    <3> QED BY <3>1, <3>2, Zenon DEF Near
  <2> QED BY <2>1, <2>2, <2>3, Zenon
<1> DEFINE q == SubSeq(p, 1, k)
<1>3. Answer(frame[1], frame[2]) = Answer(request.kind, q)
  BY <1>2
<1>4. request.kind \in {PING, GET_ADDRESS, SIGN_REQUEST}
  BY InquiryOK
<1>5. CASE request.kind = PING
  <2> DEFINE r == <<AnswerTo(PING), <<Len(Version)>> \o Version>>
  <2>1. r \in Replies(request)
    BY <1>5 DEF Replies
  <2>0. PING # GET_ADDRESS /\ PING # SIGN_REQUEST /\ GET_ADDRESS # SIGN_REQUEST
    BY DEF PING, GET_ADDRESS, SIGN_REQUEST
  <2>2. Answer(request.kind, q) = Frame(AnswerTo(PING), <<Len(Version)>> \o Version)
    BY <1>5, <2>0, Zenon DEF Answer
  <2>3. Frame(r[1], r[2]) = Frame(AnswerTo(PING), <<Len(Version)>> \o Version)
    BY Zenon
  <2> QED BY <1>3, <2>1, <2>2, <2>3
<1>6. CASE request.kind = GET_ADDRESS
  <2>1. /\ Answer(request.kind, q) = AnswerAddress(q) /\ request.kind # PING
        /\ p = BigEndian(request.account, AccountBytes) /\ AccountBytes \in Nat
    <3>0. PING # GET_ADDRESS /\ PING # SIGN_REQUEST /\ GET_ADDRESS # SIGN_REQUEST
      BY DEF PING, GET_ADDRESS, SIGN_REQUEST
    <3>1. request.kind # PING /\ AccountBytes \in Nat
      BY <1>6, <3>0, FrameAssumption
    <3>2. Answer(request.kind, q) = AnswerAddress(q)
      BY <1>6, <3>0, Zenon DEF Answer
    <3>3. p = BigEndian(request.account, AccountBytes)
      BY <1>6, <3>0, Zenon DEF Body
    <3> QED BY <3>1, <3>2, <3>3
  <2>2. request.account \in Nat /\ Shifted(request.account, AccountBytes) = 0
    BY <2>1, InquiryOK
  <2>3. Len(p) = AccountBytes /\ Number(p) = request.account
    BY <2>1, <2>2, BigEndianIsRead
  <2> HIDE DEF p
  <2>4. CASE k = Len(p)
    <3>1. q = p
      BY <1>1, <2>4, SubSeqFull
    <3>2. AnswerAddress(q) = IF request.account \in NoAccounts THEN Failure(INTERNAL_ERR)
                             ELSE Frame(AnswerTo(GET_ADDRESS), Address(request.account))
      BY <2>3, <3>1 DEF AnswerAddress
    <3>3. CASE request.account \in NoAccounts
      <4>1. Answer(request.kind, q) = Failure(INTERNAL_ERR)
        BY <2>1, <3>2, <3>3
      <4> QED BY <1>3, <4>1, FailureReplies
    <3>4. CASE request.account \notin NoAccounts
      <4> DEFINE r == <<AnswerTo(GET_ADDRESS), Address(request.account)>>
      <4>1. r \in Replies(request)
        BY <1>6, <2>1, <3>4 DEF Replies
      <4>2. Answer(request.kind, q) = Frame(r[1], r[2])
        BY <2>1, <3>2, <3>4
      <4> QED BY <1>3, <4>1, <4>2
    <3> QED BY <3>3, <3>4
  <2>5. CASE k # Len(p)
    <3>1. k \in Nat /\ 1 \in Nat /\ 1 <= 1 /\ 1 <= k + 1 /\ k <= Len(p) /\ k + 1 - 1 = k
      BY <1>1
    <3>2. Len(q) = k + 1 - 1
      BY <1>1, <3>1, PieceOK
    <3>3. AnswerAddress(q) = Failure(MALFORMED_ERR)
      BY <2>3, <2>5, <3>1, <3>2 DEF AnswerAddress
    <3> QED BY <1>3, <2>1, <3>3, FailureReplies
  <2> QED BY <2>4, <2>5
<1>7. CASE request.kind = SIGN_REQUEST
  <2>1. Answer(request.kind, q) = AnswerSign(q)
    BY <1>7 DEF Answer, PING, GET_ADDRESS, SIGN_REQUEST
  <2> QED BY <1>3, <1>7, <2>1, SignAnswered
<1> QED BY <1>4, <1>5, <1>6, <1>7

\* The answer to a ping.
LEMMA PongIs == <<Len(Version)>> \o Version = <<3, 3, 2, 1>> /\ <<3, 3, 2, 1>> \in Seq(Byte) /\ Version \in Seq(Byte)
<1> DEFINE v == <<3, 2, 1>>
           w == <<3, 3, 2, 1>>
           z == <<3>> \o v
<1>1. 1 \in Byte /\ 2 \in Byte /\ 3 \in Byte
  BY ByteOK
<1>2. v \in Seq(Byte) /\ Len(v) = 3 /\ v[1] = 3 /\ v[2] = 2 /\ v[3] = 1
  BY <1>1
<1>3. w \in Seq(Byte) /\ Len(w) = 4 /\ w[1] = 3 /\ w[2] = 3 /\ w[3] = 2 /\ w[4] = 1
  BY <1>1
<1>4. Version = v /\ Len(Version) = 3
  BY DEF Version
<1> HIDE DEF v, w
<1>5. z \in Seq(Byte) /\ Len(z) = Len(v) + 1 /\ z[1] = 3 /\ \A i \in 2 .. Len(v) + 1 : z[i] = v[i - 1]
  BY <1>1, <1>2, TypeFirst
<1> HIDE DEF z
<1>6. ASSUME NEW i \in 1 .. 4 PROVE z[i] = w[i]
  <2>1. i = 1 \/ (i = 2 /\ i - 1 = 1) \/ (i = 3 /\ i - 1 = 2) \/ (i = 4 /\ i - 1 = 3)
    OBVIOUS
  <2>2. i # 1 => i \in 2 .. Len(v) + 1
    BY <1>2
  <2> QED BY <1>2, <1>3, <1>5, <2>1, <2>2
<1>7. z = w
  <2>1. Len(z) = 4 /\ Len(z) = Len(w)
    BY <1>2, <1>3, <1>5
  <2>2. \A i \in 1 .. Len(z) : z[i] = w[i]
    BY <1>6, <2>1
  <2> QED BY <1>3, <1>5, <2>1, <2>2, SeqEqual
<1>8. <<Len(Version)>> \o Version = z
  BY <1>4 DEF z
<1> QED BY <1>2, <1>3, <1>4, <1>7, <1>8 DEF w

\* Every reply can be framed.
LEMMA ReplyOK ==
    ASSUME NEW request \in Inquiries, NEW r \in Replies(request)
    PROVE  r[1] \in Byte /\ r[2] \in Seq(Byte) /\ Shifted(Len(r[2]) + 1, 2) = 0
<1>0. \A n \in 0 .. 7 : n \in Byte
  BY ByteOK
<1>1. ASSUME NEW code \in {MALFORMED_ERR, UNKNOWN_ERR, INTERNAL_ERR}, r = <<ERROR, <<code, 2, 5, 6>>>>
      PROVE  r[1] \in Byte /\ r[2] \in Seq(Byte) /\ Shifted(Len(r[2]) + 1, 2) = 0
  <2> DEFINE e == <<code, 2, 5, 6>>
  <2>1. code \in Byte /\ 2 \in Byte /\ 5 \in Byte /\ 6 \in Byte
    BY <1>0 DEF MALFORMED_ERR, UNKNOWN_ERR, INTERNAL_ERR
  <2>2. e \in Seq(Byte) /\ Len(e) + 1 = 5 /\ 5 \in 0 .. 6
    BY <2>1
  <2>3. r[1] = ERROR /\ r[2] = e
    BY <1>1
  <2> HIDE DEF e
  <2> QED BY <2>2, <2>3, FewFit, ByteOK
<1>2. ASSUME request.kind = PING, r = <<AnswerTo(PING), <<Len(Version)>> \o Version>>
      PROVE  r[1] \in Byte /\ r[2] \in Seq(Byte) /\ Shifted(Len(r[2]) + 1, 2) = 0
  <2>1. Len(<<3, 3, 2, 1>>) + 1 = 5 /\ 5 \in 0 .. 6
    OBVIOUS
  <2>2. AnswerTo(PING) \in Byte
    BY ByteOK
  <2>3. r[1] = AnswerTo(PING) /\ r[2] = <<3, 3, 2, 1>>
    BY <1>2, PongIs
  <2> QED BY <2>1, <2>2, <2>3, FewFit, PongIs
<1>3. ASSUME request.kind # PING, r = <<AnswerTo(GET_ADDRESS), Address(request.account)>>
      PROVE  r[1] \in Byte /\ r[2] \in Seq(Byte) /\ Shifted(Len(r[2]) + 1, 2) = 0
  <2>1. request.account \in Accounts
    BY <1>3, InquiryOK
  <2>2. Address(request.account) \in Seq(Text) /\ Shifted(Len(Address(request.account)) + 1, 2) = 0
    BY <2>1, FrameAssumption
  <2>3. Address(request.account) \in Seq(Byte)
    BY <2>2, ByteOK, SeqMonotonic
  <2>4. AnswerTo(GET_ADDRESS) \in Byte
    BY ByteOK
  <2> QED BY <1>3, <2>2, <2>3, <2>4
<1>4. ASSUME request.kind = SIGN_REQUEST, r = <<AnswerTo(SIGN_REQUEST), Signature(request.account, request.bytes)>>
      PROVE  r[1] \in Byte /\ r[2] \in Seq(Byte) /\ Shifted(Len(r[2]) + 1, 2) = 0
  <2>1. SIGN_REQUEST # PING
    BY DEF SIGN_REQUEST, PING
  <2>2. request.account \in Accounts /\ request.bytes \in Payloads
    BY <1>4, <2>1, InquiryOK
  <2> DEFINE s == Signature(request.account, request.bytes)
  <2>3. s \in [1 .. SignatureBytes -> Byte] /\ SignatureBytes \in Nat /\ Shifted(SignatureBytes + 1, 2) = 0
    BY <2>2, FrameAssumption
  <2>4. r[1] = AnswerTo(SIGN_REQUEST) /\ r[2] = s /\ AnswerTo(SIGN_REQUEST) \in Byte
    BY <1>4, ByteOK
  <2> HIDE DEF s
  <2>5. s \in Seq(Byte) /\ Len(s) = SignatureBytes
    BY <2>3
  <2> QED BY <2>3, <2>4, <2>5
<1>5. request.kind \in {PING, GET_ADDRESS, SIGN_REQUEST}
  BY InquiryOK
<1>6. GET_ADDRESS # PING /\ SIGN_REQUEST # PING /\ SIGN_REQUEST # GET_ADDRESS
  BY DEF PING, GET_ADDRESS, SIGN_REQUEST
<1>7. \/ \E code \in {MALFORMED_ERR, UNKNOWN_ERR, INTERNAL_ERR} : r = <<ERROR, <<code, 2, 5, 6>>>>
      \/ request.kind = PING /\ r = <<AnswerTo(PING), <<Len(Version)>> \o Version>>
      \/ request.kind # PING /\ r = <<AnswerTo(GET_ADDRESS), Address(request.account)>>
      \/ request.kind = SIGN_REQUEST
         /\ r = <<AnswerTo(SIGN_REQUEST), Signature(request.account, request.bytes)>>
  BY <1>5, <1>6, Zenon DEF Replies
<1> QED BY <1>1, <1>2, <1>3, <1>4, <1>7

\* Nothing but what was asked for is understood of a reply, or an error.
LEMMA AnswerUnderstood ==
    ASSUME NEW request \in Inquiries, NEW r \in Replies(request),
           NEW frame \in Near(r[1], r[2]), frame # <<>>
    PROVE  LET x == Understood(frame[1], frame[2])
           IN  x = <<>> \/ x = Due(request) \/ x[1] = "error"
<1> DEFINE t == r[1]
           p == r[2]
           x == Understood(frame[1], frame[2])
<1>1. t \in Byte /\ p \in Seq(Byte) /\ Len(p) \in Nat
  BY ReplyOK
<1>2. PICK k \in 0 .. Len(p) : /\ frame = <<t, SubSeq(p, 1, k)>>
                               /\ k # Len(p) => Checksum(<<t>> \o SubSeq(p, 1, k)) = p[k + 1]
  <2> HIDE DEF t, p
  <2>1. CASE frame = <<t, p>>
    <3>1. p = SubSeq(p, 1, Len(p)) /\ Len(p) \in 0 .. Len(p)
      BY <1>1, SubSeqFull
    <3> QED BY <2>1, <3>1
  <2>2. CASE \E k \in Passing(t, p) : frame = <<t, SubSeq(p, 1, k)>>
    <3>1. \A k \in Passing(t, p) : k \in 0 .. Len(p) /\ Checksum(<<t>> \o SubSeq(p, 1, k)) = p[k + 1]
      BY <1>1 DEF Passing
    <3> QED BY <2>2, <3>1
  <2>3. frame = <<t, p>> \/ \E k \in Passing(t, p) : frame = <<t, SubSeq(p, 1, k)>>
    <3> HIDE DEF t, p
    <3>1. frame \in Near(t, p)
      BY DEF t, p
    <3> QED BY <3>1 DEF Near
  <2> QED BY <2>1, <2>2, <2>3
<1> DEFINE q == SubSeq(p, 1, k)
<1>3. x = Understood(t, q)
  BY <1>2
<1>4. q \in Seq(Byte) /\ Len(q) = k /\ k \in Nat /\ k <= Len(p) /\ \A i \in 1 .. k : q[i] = p[i]
  <2> HIDE DEF p, t
  <2>1. k \in Nat /\ 1 \in Nat /\ 1 <= 1 /\ 1 <= k + 1 /\ k <= Len(p) /\ k + 1 - 1 = k /\ \A i \in 1 .. k : 1 - 1 + i = i
    BY <1>1
  <2>2. q \in Seq(Byte) /\ Len(q) = k + 1 - 1 /\ \A i \in 1 .. k + 1 - 1 : q[i] = p[1 - 1 + i]
    BY <1>1, <2>1, PieceOK
  <2> HIDE DEF q
  <2> QED BY <2>1, <2>2
<1>5. k = Len(p) => q = p
  BY <1>1, SubSeqFull
<1>6. /\ AnswerTo(PING) # AnswerTo(GET_ADDRESS) /\ AnswerTo(PING) # AnswerTo(SIGN_REQUEST)
      /\ AnswerTo(GET_ADDRESS) # AnswerTo(SIGN_REQUEST)
      /\ ERROR \notin {AnswerTo(PING), AnswerTo(GET_ADDRESS), AnswerTo(SIGN_REQUEST)}
  BY ByteOK DEF AnswerTo, PING, GET_ADDRESS, SIGN_REQUEST, ERROR
<1>7. GET_ADDRESS # PING /\ SIGN_REQUEST # PING /\ SIGN_REQUEST # GET_ADDRESS
  BY DEF PING, GET_ADDRESS, SIGN_REQUEST
<1>8. request.kind \in {PING, GET_ADDRESS, SIGN_REQUEST}
  BY InquiryOK
<1> HIDE DEF q, x
<1>9. CASE t = ERROR
  <2>1. x = IF Len(q) < 2 \/ Len(q) < q[2] + 2 THEN <<>> ELSE <<"error", q[1]>>
    BY <1>3, <1>6, <1>9, Zenon DEF Understood
  <2>2. x = <<>> \/ x = <<"error", q[1]>>
    BY <2>1
  <2> QED BY <2>2 DEF x
<1>10. CASE request.kind = PING /\ t = AnswerTo(PING) /\ p = <<Len(Version)>> \o Version
  <2>1. x = IF q = <<>> \/ Len(q) < q[1] + 1 THEN <<>> ELSE <<"version", SubSeq(q, 2, q[1] + 1)>>
    BY <1>3, <1>6, <1>10, Zenon DEF Understood
  <2>2. Len(p) = 4 /\ p[1] = 3 /\ p[2] = 3 /\ p[3] = 2 /\ p[4] = 1
    <3> DEFINE w == <<3, 3, 2, 1>>
    <3>1. p = w
      BY <1>10, PongIs, Zenon
    <3>2. Len(w) = 4 /\ w[1] = 3 /\ w[2] = 3 /\ w[3] = 2 /\ w[4] = 1
      OBVIOUS
    <3> HIDE DEF w, p
    <3> QED BY <3>1, <3>2, Zenon
  <2> HIDE DEF p, t
  <2>3. CASE k # Len(p)
    <3>1. k < 4 /\ (k # 0 => q[1] = 3)
      BY <1>4, <2>2, <2>3
    <3>2. k = 0 => q = <<>>
      BY <1>4
    <3> QED BY <1>4, <2>1, <3>1, <3>2 DEF x
  <2>4. CASE k = Len(p)
    <3> DEFINE u == SubSeq(p, 2, 4)
    <3>1. u = Version
      <4>1. 2 \in Nat /\ 4 \in Nat /\ 1 <= 2 /\ 2 <= 4 + 1 /\ 4 <= Len(p) /\ 4 + 1 - 2 = 3
        BY <2>2
      <4>2. u \in Seq(Byte) /\ Len(u) = 4 + 1 - 2 /\ \A i \in 1 .. 4 + 1 - 2 : u[i] = p[2 - 1 + i]
        BY <1>1, <4>1, PieceOK
      <4> HIDE DEF u
      <4>3. 1 \in 1 .. 4 + 1 - 2 /\ 2 \in 1 .. 4 + 1 - 2 /\ 3 \in 1 .. 4 + 1 - 2
            /\ 2 - 1 + 1 = 2 /\ 2 - 1 + 2 = 3 /\ 2 - 1 + 3 = 4
        OBVIOUS
      <4>4. Len(u) = 3 /\ u[1] = 3 /\ u[2] = 2 /\ u[3] = 1
        BY <2>2, <4>1, <4>2, <4>3
      <4>5. Version \in Seq(Byte) /\ Len(Version) = 3 /\ Version[1] = 3 /\ Version[2] = 2 /\ Version[3] = 1
        BY PongIs DEF Version
      <4>6. \A i \in 1 .. Len(u) : u[i] = Version[i]
        <5>1. \A i \in 1 .. 3 : i = 1 \/ i = 2 \/ i = 3
          OBVIOUS
        <5> QED BY <4>4, <4>5, <5>1
      <4> QED BY <4>2, <4>4, <4>5, <4>6, SeqEqual
    <3>2. q = p /\ q[1] + 1 = 4 /\ Len(q) = 4 /\ q # <<>>
      <4>1. q = p
        BY <1>5, <2>4, Zenon
      <4>2. Len(q) = 4 /\ q[1] = 3
        BY <2>2, <4>1, Zenon
      <4>3. q # <<>>
        BY <4>2
      <4> QED BY <4>1, <4>2, <4>3
    <3>3. x = <<"version", Version>>
      <4>1. x = <<"version", SubSeq(q, 2, q[1] + 1)>>
        BY <2>1, <3>2
      <4> QED BY <3>1, <3>2, <4>1
    <3>4. Due(request) = <<"version", Version>>
      BY <1>10 DEF Due
    <3> QED BY <3>3, <3>4 DEF x
  <2> QED BY <2>3, <2>4
<1>11. CASE request.kind = GET_ADDRESS /\ request.account \notin NoAccounts
            /\ t = AnswerTo(GET_ADDRESS) /\ p = Address(request.account)
  <2>1. x = <<"address", q>>
    BY <1>3, <1>6, <1>11, Zenon DEF Understood
  <2>2. p \in Seq(Text) /\ t \notin Text
    <3>1. request.account \in Accounts
      BY <1>7, <1>11, InquiryOK
    <3>2. Address(request.account) \in Seq(Text)
      BY <3>1, FrameAssumption
    <3> QED BY <1>11, <3>2, ByteOK
  <2>3. Due(request) = <<"address", p>>
    BY <1>7, <1>11 DEF Due
  <2> HIDE DEF p, t
  <2>4. CASE k = Len(p)
    BY <1>5, <2>1, <2>3, <2>4 DEF x
  <2>5. CASE k # Len(p)
    <3> DEFINE s == <<t>> \o q
    <3>1. s \in Seq(Byte) /\ Len(s) = Len(q) + 1 /\ s[1] = t /\ \A i \in 2 .. Len(q) + 1 : s[i] = q[i - 1]
      BY <1>1, <1>4, TypeFirst
    <3>2. Checksum(s) = p[k + 1]
      BY <1>2, <2>5 DEF q
    <3> HIDE DEF s
    <3>3. s # <<>>
      BY <1>4, <3>1
    <3>4. ASSUME NEW i \in 2 .. Len(s) PROVE s[i] \in Text
      <4> DEFINE j == i - 1
      <4>1. j \in 1 .. k /\ j \in 1 .. Len(p) /\ i \in 2 .. Len(q) + 1
        BY <1>1, <1>4, <3>1
      <4>2. s[i] = q[j] /\ q[j] = p[j]
        BY <1>4, <3>1, <4>1
      <4> HIDE DEF j
      <4>3. p[j] \in Text
        BY <2>2, <4>1, ElementOfSeq
      <4> QED BY <4>2, <4>3
    <3>5. Checksum(s) \notin Text
      BY <2>2, <3>1, <3>3, <3>4, ChecksumHigh
    <3>6. p[k + 1] \in Text
      <4>1. k + 1 \in 1 .. Len(p)
        BY <1>1, <1>4, <2>5
      <4> QED BY <2>2, <4>1, ElementOfSeq
    <3> QED BY <3>2, <3>5, <3>6
  <2> QED BY <2>4, <2>5
<1>12. CASE request.kind = SIGN_REQUEST /\ request.account \notin NoAccounts
            /\ t = AnswerTo(SIGN_REQUEST) /\ p = Signature(request.account, request.bytes)
  <2>1. x = IF Len(q) # SignatureBytes THEN <<>> ELSE <<"signature", q>>
    BY <1>3, <1>6, <1>12, Zenon DEF Understood
  <2>2. Len(p) = SignatureBytes
    <3>1. request.account \in Accounts /\ request.bytes \in Payloads
      BY <1>7, <1>12, InquiryOK
    <3>2. Signature(request.account, request.bytes) \in [1 .. SignatureBytes -> Byte] /\ SignatureBytes \in Nat
      BY <3>1, FrameAssumption
    <3>3. p \in [1 .. SignatureBytes -> Byte]
      BY <1>12, <3>2
    <3> HIDE DEF p
    <3> QED BY <3>2, <3>3
  <2>3. Due(request) = <<"signature", p>>
    BY <1>7, <1>12 DEF Due
  <2> HIDE DEF p, t
  <2> QED BY <1>4, <1>5, <2>1, <2>2, <2>3 DEF x
<1>13. \/ \E code \in {MALFORMED_ERR, UNKNOWN_ERR, INTERNAL_ERR} : r = <<ERROR, <<code, 2, 5, 6>>>>
       \/ request.kind = PING /\ r = <<AnswerTo(PING), <<Len(Version)>> \o Version>>
       \/ request.kind = GET_ADDRESS /\ request.account \notin NoAccounts
          /\ r = <<AnswerTo(GET_ADDRESS), Address(request.account)>>
       \/ request.kind = SIGN_REQUEST /\ request.account \notin NoAccounts
          /\ r = <<AnswerTo(SIGN_REQUEST), Signature(request.account, request.bytes)>>
  BY <1>7, <1>8, Zenon DEF Replies
<1> QED BY <1>9, <1>10, <1>11, <1>12, <1>13

\* The line carries the request or a reply to it, damaged at most once, and the
\* wallet has taken nothing but what it asked for, or an error.
FrameInv ==
    /\ sent \in Inquiries /\ hurt \in BOOLEAN
    /\ carries = "request" =>
          IF hurt THEN Decode(wire) \in Near(sent.kind, Body(sent)) ELSE wire = Encoded(sent)
    /\ carries = "answer" =>
          \E r \in Replies(sent) :
             IF hurt THEN Decode(wire) \in Near(r[1], r[2]) ELSE wire = Frame(r[1], r[2])
    /\ AnswerIsToRequest

\* A frame is decoded as near as can be to what it was made of, before and
\* after the line has changed or cut it.
LEMMA FrameHurt ==
    ASSUME NEW type \in Byte, NEW payload \in Seq(Byte), Shifted(Len(payload) + 1, 2) = 0,
           NEW w, w = Frame(type, payload)
    PROVE  /\ Decode(w) \in Near(type, payload)
           /\ \A place \in DOMAIN w, byte \in Byte : Decode([w EXCEPT ![place] = byte]) \in Near(type, payload)
           /\ \A n \in 0 .. Len(w) - 1 : Decode(SubSeq(w, 1, n)) \in Near(type, payload)
<1>1. IsFrame(w, type, payload)
  BY FrameOK
<1>2. w \in Seq(Byte)
  BY <1>1 DEF IsFrame
<1>3. Decode(w) \in Near(type, payload)
  BY <1>1, <1>2, DecodeAlike
<1>4. \A place \in DOMAIN w, byte \in Byte : Decode([w EXCEPT ![place] = byte]) \in Near(type, payload)
  BY <1>1, <1>2, ChangedIsNear
<1>5. \A n \in 0 .. Len(w) - 1 : Decode(SubSeq(w, 1, n)) = <<>>
  BY <1>1, CutIsNone
<1>6. <<>> \in Near(type, payload)
  BY DEF Near
<1> QED BY <1>3, <1>4, <1>5, <1>6

\* What decodes to something near a reply is such a reply damaged at most once.
LEMMA ReplyHurt ==
    ASSUME NEW request \in Inquiries, NEW r \in Replies(request), NEW w, w = Frame(r[1], r[2])
    PROVE  /\ Decode(w) \in Near(r[1], r[2])
           /\ \A place \in DOMAIN w, byte \in Byte : Decode([w EXCEPT ![place] = byte]) \in Near(r[1], r[2])
           /\ \A n \in 0 .. Len(w) - 1 : Decode(SubSeq(w, 1, n)) \in Near(r[1], r[2])
BY ReplyOK, FrameHurt

\* The same for the frame of a request.
LEMMA RequestHurt ==
    ASSUME NEW request \in Inquiries, NEW w, w = Encoded(request)
    PROVE  /\ Decode(w) \in Near(request.kind, Body(request))
           /\ \A place \in DOMAIN w, byte \in Byte :
                 Decode([w EXCEPT ![place] = byte]) \in Near(request.kind, Body(request))
           /\ \A n \in 0 .. Len(w) - 1 : Decode(SubSeq(w, 1, n)) \in Near(request.kind, Body(request))
<1>1. w = Frame(request.kind, Body(request))
  BY DEF Encoded
<1> QED BY <1>1, BodyOK, FrameHurt

\* It holds at the start.
LEMMA FrameInvInit == FrameInit => FrameInv
<1> SUFFICES ASSUME FrameInit PROVE FrameInv
  OBVIOUS
<1>1. [kind |-> PING] \in Inquiries
  BY DEF Inquiries
<1> QED BY <1>1 DEF FrameInit, FrameInv, AnswerIsToRequest

\* Every step of the wallet, of the signer and of the line keeps it.
LEMMA FrameInvNext == FrameInv /\ [FrameNext]_frameVars => FrameInv'
<1> SUFFICES ASSUME FrameInv, [FrameNext]_frameVars PROVE FrameInv'
  OBVIOUS
<1>0. sent \in Inquiries /\ hurt \in BOOLEAN
  BY DEF FrameInv
<1>1. ASSUME NEW request \in Inquiries, Inquire(request) PROVE FrameInv'
  BY <1>1 DEF Inquire, FrameInv, AnswerIsToRequest
<1>2. ASSUME NEW w, carries' = carries, sent' = sent, taken' = taken, hurt' = TRUE, wire' = w,
             carries # "nothing", ~hurt,
             (\/ \E place \in DOMAIN wire, byte \in Byte : w = [wire EXCEPT ![place] = byte]
              \/ \E n \in 0 .. Len(wire) - 1 : w = SubSeq(wire, 1, n))
      PROVE  FrameInv'
  <2>1. ASSUME carries = "request" PROVE Decode(w) \in Near(sent.kind, Body(sent))
    <3>1. wire = Encoded(sent)
      BY <1>2, <2>1 DEF FrameInv
    <3> QED BY <1>0, <1>2, <3>1, RequestHurt
  <2>2. ASSUME carries = "answer" PROVE \E r \in Replies(sent) : Decode(w) \in Near(r[1], r[2])
    <3>1. PICK r \in Replies(sent) : wire = Frame(r[1], r[2])
      BY <1>2, <2>2 DEF FrameInv
    <3>2. Decode(w) \in Near(r[1], r[2])
      BY <1>0, <1>2, <3>1, ReplyHurt
    <3> QED BY <3>2
  <2> QED BY <1>0, <1>2, <2>1, <2>2 DEF FrameInv, AnswerIsToRequest
<1>3. ASSUME NEW place \in DOMAIN wire, NEW byte \in Byte, ChangeByte(place, byte) PROVE FrameInv'
  <2>1. /\ carries' = carries /\ sent' = sent /\ taken' = taken /\ hurt' = TRUE
        /\ wire' = [wire EXCEPT ![place] = byte] /\ carries # "nothing" /\ ~hurt
    BY <1>3 DEF ChangeByte
  <2> QED BY <1>2, <2>1
<1>4. ASSUME NEW n \in 0 .. Len(wire) - 1, CutWire(n) PROVE FrameInv'
  <2>1. /\ carries' = carries /\ sent' = sent /\ taken' = taken /\ hurt' = TRUE
        /\ wire' = SubSeq(wire, 1, n) /\ carries # "nothing" /\ ~hurt
    BY <1>4 DEF CutWire
  <2> QED BY <1>2, <2>1
<1>5. CASE Process
  <2> DEFINE frame == Decode(wire)
  <2>1. frame \in Near(sent.kind, Body(sent))
    <3>1. carries = "request"
      BY <1>5 DEF Process
    <3>2. hurt \/ wire = Encoded(sent)
      BY <3>1 DEF FrameInv
    <3>3. hurt => Decode(wire) \in Near(sent.kind, Body(sent))
      BY <3>1 DEF FrameInv
    <3> QED BY <1>0, <3>2, <3>3, RequestHurt
  <2> HIDE DEF frame
  <2>2. sent' = sent /\ hurt' = hurt /\ taken' = taken
    BY <1>5 DEF Process
  <2>3. AnswerIsToRequest'
    BY <2>2 DEF FrameInv, AnswerIsToRequest
  <2>4. CASE frame = <<>>
    <3>1. carries' = "nothing"
      BY <1>5, <2>4 DEF Process, frame
    <3> QED BY <1>0, <2>2, <2>3, <3>1 DEF FrameInv
  <2>5. CASE frame # <<>>
    <3>1. carries' = "answer" /\ wire' = Answer(frame[1], frame[2])
      BY <1>5, <2>5 DEF Process, frame
    <3>2. PICK r \in Replies(sent) : wire' = Frame(r[1], r[2])
      BY <1>0, <2>1, <2>5, <3>1, RequestAnswered
    <3>3. Decode(wire') \in Near(r[1], r[2])
      BY <1>0, <3>2, ReplyHurt
    <3> QED BY <1>0, <2>2, <2>3, <3>1, <3>2, <3>3 DEF FrameInv
  <2> QED BY <2>4, <2>5
<1>6. CASE Receive
  <2> DEFINE frame == Decode(wire)
             x == Understood(frame[1], frame[2])
  <2>1. PICK r \in Replies(sent) : frame \in Near(r[1], r[2])
    <3>1. carries = "answer"
      BY <1>6 DEF Receive
    <3>2. PICK r \in Replies(sent) : IF hurt THEN Decode(wire) \in Near(r[1], r[2]) ELSE wire = Frame(r[1], r[2])
      BY <3>1 DEF FrameInv
    <3> QED BY <1>0, <3>2, ReplyHurt
  <2> HIDE DEF frame
  <2>2. sent' = sent /\ hurt' = hurt /\ carries' = "nothing"
        /\ taken' = IF frame = <<>> THEN <<>> ELSE x
    BY <1>6 DEF Receive, frame
  <2>3. frame # <<>> => x = <<>> \/ x = Due(sent) \/ x[1] = "error"
    BY <1>0, <2>1, AnswerUnderstood
  <2> HIDE DEF x
  <2>4. taken' # <<>> => taken' = Due(sent) \/ taken'[1] = "error"
    BY <2>2, <2>3
  <2> QED BY <1>0, <2>2, <2>4 DEF FrameInv, AnswerIsToRequest
<1>7. CASE UNCHANGED frameVars
  BY <1>7 DEF frameVars, FrameInv, AnswerIsToRequest
<1> QED BY <1>1, <1>3, <1>4, <1>5, <1>6, <1>7 DEF FrameNext

\* The wallet takes the answer to its request, an error or nothing, whatever byte
\* the line changes and wherever it cuts a frame, for every exclusive or of bytes
\* that undoes itself (tezos_signer_frame_decode, tezos_signer_sim_process).
THEOREM AnswersAreToRequests == FrameSpec => []AnswerIsToRequest
<1>1. FrameInv => AnswerIsToRequest
  BY DEF FrameInv
<1> QED BY <1>1, FrameInvInit, FrameInvNext, PTL DEF FrameSpec

-----------------------------------------------------------------------------
(* Recovery phrases.                                                       *)

\* Half of a number and its last digit.
LEMMA LowBit ==
    ASSUME NEW n \in Nat
    PROVE  n \div 2 \in Nat /\ n % 2 \in {0, 1} /\ n = 2 * (n \div 2) + (n % 2)
OBVIOUS

\* Shifting by no bit, and by one more.
LEMMA HalvedSteps ==
    ASSUME NEW n \in Nat
    PROVE  /\ Halved(n, 0) = n
           /\ \A k \in Nat : Halved(n, k) \in Nat /\ Halved(n, k + 1) = Halved(n, k) \div 2
<1> DEFINE step == [p \in Nat \X Nat |-> p[2] \div 2]
<1>1. step \in [Nat \X Nat -> Nat]
  BY LowBit
<1>2. PICK a : RecursOn(a, Nat, n, step)
  <2> HIDE DEF step
  <2> QED BY <1>1, EndlessRecursion
<1>3. a \in [Nat -> Nat] /\ a[0] = n /\ \A k \in Nat : a[k + 1] = step[<<k + 1, a[k]>>]
  BY <1>2 DEF RecursOn
<1>4. \A k \in Nat : a[k + 1] = a[k] \div 2
  <2> TAKE k \in Nat
  <2>1. <<k + 1, a[k]>> \in Nat \X Nat
    BY <1>3
  <2> QED BY <1>3, <2>1
<1>5. ASSUME NEW N \in Nat PROVE Halved(n, N) = a[N]
  <2> DEFINE Step(h) == [k \in 0 .. N |-> IF k = 0 THEN n ELSE h[k - 1] \div 2]
             h == CHOOSE h : h = Step(h)
             g == [k \in 0 .. N |-> a[k]]
  <2>1. Halved(n, N) = h[N]
    BY DEF Halved
  <2>2. g = Step(g)
    <3>1. ASSUME NEW k \in 0 .. N PROVE g[k] = IF k = 0 THEN n ELSE g[k - 1] \div 2
      <4>1. CASE k = 0
        BY <1>3, <4>1
      <4>2. CASE k # 0
        <5> DEFINE m == k - 1
        <5>1. m \in Nat /\ m \in 0 .. N /\ k = m + 1
          BY <4>2
        <5> HIDE DEF m
        <5>2. a[k] = a[m] \div 2
          BY <1>4, <5>1
        <5> QED BY <4>2, <5>1, <5>2 DEF m
      <4> QED BY <4>1, <4>2
    <3> HIDE DEF g
    <3>2. g = [k \in 0 .. N |-> g[k]]
      BY DEF g
    <3> QED BY <3>1, <3>2
  <2>3. h = Step(h)
    <3> HIDE DEF Step, g
    <3> QED BY <2>2
  <2>4. h[0] = n /\ \A k \in 1 .. N : h[k] = h[k - 1] \div 2
    <3> HIDE DEF h
    <3>1. \A k \in 0 .. N : h[k] = IF k = 0 THEN n ELSE h[k - 1] \div 2
      BY <2>3
    <3>2. 0 \in 0 .. N /\ \A k \in 1 .. N : k \in 0 .. N /\ k # 0
      OBVIOUS
    <3> QED BY <3>1, <3>2
  <2> DEFINE S == {k \in 0 .. N : a[k] = h[k]}
  <2> HIDE DEF h
  <2>5. 0 \in S
    BY <1>3, <2>4
  <2>6. ASSUME NEW k \in 0 .. N, k # N, k \in S PROVE k + 1 \in S
    <3> DEFINE m == k + 1
    <3>1. m \in 1 .. N /\ m \in 0 .. N /\ m - 1 = k /\ k \in Nat
      BY <2>6
    <3>2. a[m] = a[k] \div 2
      BY <1>4, <3>1
    <3> HIDE DEF m
    <3>3. h[m] = h[k] \div 2
      BY <2>4, <3>1
    <3> QED BY <2>6, <3>1, <3>2, <3>3 DEF m
  <2>7. N \in S
    <3> HIDE DEF S
    <3>1. N \in 0 .. N
      OBVIOUS
    <3> QED BY <2>5, <2>6, <3>1, BoundedInduction
  <2> QED BY <2>1, <2>7
<1>6. ASSUME NEW k \in Nat
      PROVE  Halved(n, k) \in Nat /\ Halved(n, k + 1) = Halved(n, k) \div 2
  <2>1. k + 1 \in Nat /\ a[k] \in Nat
    BY <1>3
  <2> QED BY <1>4, <1>5, <2>1
<1> QED BY <1>3, <1>5, <1>6

\* n bits of a buffer after an offset.
AreBits(buf, offset, n) == \A i \in 1 .. n : buf[offset + i] \in {0, 1}

\* The values that get_bits goes through.
Gets(a, buf, offset, n) ==
    /\ a \in [0 .. n -> Nat] /\ a[0] = 0
    /\ \A i \in 1 .. n : a[i] = 2 * a[i - 1] + buf[offset + i]

\* get_bits reads them all.
LEMMA BitsAreRead ==
    ASSUME NEW buf, NEW offset \in Nat, NEW n \in Nat, NEW a, Gets(a, buf, offset, n)
    PROVE  GetBits(buf, offset, n) = a[n]
<1> DEFINE Step(v) == [i \in 0 .. n |-> IF i = 0 THEN 0 ELSE 2 * v[i - 1] + buf[offset + i]]
           v == CHOOSE v : v = Step(v)
<1>1. a \in [0 .. n -> Nat] /\ a[0] = 0 /\ \A i \in 1 .. n : a[i] = 2 * a[i - 1] + buf[offset + i]
  BY DEF Gets
<1>2. a = Step(a)
  <2>1. ASSUME NEW i \in 0 .. n PROVE a[i] = IF i = 0 THEN 0 ELSE 2 * a[i - 1] + buf[offset + i]
    <3>1. i = 0 \/ (i # 0 /\ i \in 1 .. n)
      OBVIOUS
    <3> QED BY <1>1, <3>1
  <2> QED BY <1>1, <2>1
<1>3. v = Step(v)
  <2> HIDE DEF Step
  <2> QED BY <1>2
<1>4. v[0] = 0 /\ \A i \in 1 .. n : v[i] = 2 * v[i - 1] + buf[offset + i]
  <2> HIDE DEF v
  <2>1. \A i \in 0 .. n : v[i] = IF i = 0 THEN 0 ELSE 2 * v[i - 1] + buf[offset + i]
    BY <1>3
  <2>2. 0 \in 0 .. n /\ \A i \in 1 .. n : i \in 0 .. n /\ i # 0
    OBVIOUS
  <2> QED BY <2>1, <2>2
<1>5. GetBits(buf, offset, n) = v[n]
  BY DEF GetBits
<1> HIDE DEF v
<1> DEFINE S == {i \in 0 .. n : a[i] = v[i]}
<1>6. 0 \in S
  BY <1>1, <1>4
<1>7. ASSUME NEW i \in 0 .. n, i # n, i \in S PROVE i + 1 \in S
  <2> DEFINE m == i + 1
  <2>1. m \in 1 .. n /\ m \in 0 .. n /\ m - 1 = i /\ a[i] = v[i]
    BY <1>7
  <2> HIDE DEF m
  <2>2. a[m] = 2 * a[i] + buf[offset + m] /\ v[m] = 2 * v[i] + buf[offset + m]
    BY <1>1, <1>4, <2>1
  <2> QED BY <2>1, <2>2 DEF m
<1>8. n \in S
  <2> HIDE DEF S
  <2>1. n \in 0 .. n
    OBVIOUS
  <2> QED BY <1>6, <1>7, <2>1, BoundedInduction
<1> QED BY <1>5, <1>8

\* get_bits of one bit more.
LEMMA OneBitMore ==
    ASSUME NEW buf, NEW offset \in Nat, NEW n \in Nat, AreBits(buf, offset, n)
    PROVE  /\ GetBits(buf, offset, 0) = 0
           /\ \A k \in 0 .. n : GetBits(buf, offset, k) \in Nat
           /\ \A k \in 1 .. n :
                 GetBits(buf, offset, k) = 2 * GetBits(buf, offset, k - 1) + buf[offset + k]
<1> DEFINE step == [p \in (1 .. n) \X Nat |-> 2 * p[2] + buf[offset + p[1]]]
<1>1. \A i \in 1 .. n : buf[offset + i] \in Nat
  BY DEF AreBits
<1>2. step \in [(1 .. n) \X Nat -> Nat]
  <2>1. ASSUME NEW p \in (1 .. n) \X Nat PROVE 2 * p[2] + buf[offset + p[1]] \in Nat
    BY <1>1
  <2> QED BY <2>1
<1>3. PICK a : Recurs(a, n, Nat, 0, step)
  <2> HIDE DEF step
  <2> QED BY <1>2, Recursion
<1>4. a \in [0 .. n -> Nat] /\ a[0] = 0 /\ \A i \in 1 .. n : a[i] = step[<<i, a[i - 1]>>]
  BY <1>3 DEF Recurs
<1>5. ASSUME NEW i \in 1 .. n PROVE a[i] = 2 * a[i - 1] + buf[offset + i]
  <2>1. i - 1 \in 0 .. n
    OBVIOUS
  <2>2. <<i, a[i - 1]>> \in (1 .. n) \X Nat
    BY <1>4, <2>1
  <2> QED BY <1>4, <2>2
<1>6. ASSUME NEW k \in 0 .. n PROVE GetBits(buf, offset, k) = a[k]
  <2> DEFINE c == [i \in 0 .. k |-> a[i]]
  <2>1. \A i \in 0 .. k : i \in 0 .. n /\ c[i] = a[i]
    OBVIOUS
  <2>2. c \in [0 .. k -> Nat] /\ c[0] = 0 /\ k \in Nat /\ 0 \in 0 .. k
    BY <1>4, <2>1
  <2>3. \A i \in 1 .. k : i \in 1 .. n /\ i \in 0 .. k /\ i - 1 \in 0 .. k
    OBVIOUS
  <2> HIDE DEF c
  <2>4. \A i \in 1 .. k : c[i] = 2 * c[i - 1] + buf[offset + i]
    BY <1>5, <2>1, <2>3
  <2>5. Gets(c, buf, offset, k)
    BY <2>2, <2>4 DEF Gets
  <2>6. GetBits(buf, offset, k) = c[k] /\ c[k] = a[k]
    BY <2>1, <2>2, <2>5, BitsAreRead
  <2> QED BY <2>6
<1>7. \A k \in 1 .. n : k \in 0 .. n /\ k - 1 \in 0 .. n
  OBVIOUS
<1>8. 0 \in 0 .. n
  OBVIOUS
<1> QED BY <1>4, <1>5, <1>6, <1>7, <1>8

\* The same bits, after any two offsets.
Alike(f, o, g, p, n) == \A i \in 1 .. n : f[o + i] = g[p + i]

\* What get_bits reads is the same exactly when the bits are.
LEMMA SameBits ==
    ASSUME NEW f, NEW o \in Nat, NEW g, NEW p \in Nat, NEW n \in Nat,
           AreBits(f, o, n), AreBits(g, p, n)
    PROVE  GetBits(f, o, n) = GetBits(g, p, n) <=> Alike(f, o, g, p, n)
<1> DEFINE F(k) == GetBits(f, o, k)
           G(k) == GetBits(g, p, k)
           S == {k \in 0 .. n : F(k) = G(k) <=> \A i \in 1 .. k : f[o + i] = g[p + i]}
<1>1. /\ F(0) = 0 /\ (\A k \in 0 .. n : F(k) \in Nat)
      /\ \A k \in 1 .. n : F(k) = 2 * F(k - 1) + f[o + k]
  BY OneBitMore
<1>2. /\ G(0) = 0 /\ (\A k \in 0 .. n : G(k) \in Nat)
      /\ \A k \in 1 .. n : G(k) = 2 * G(k - 1) + g[p + k]
  BY OneBitMore
<1> HIDE DEF F, G
<1>3. 0 \in S
  <2>1. F(0) = G(0) /\ \A i \in 1 .. 0 : f[o + i] = g[p + i]
    BY <1>1, <1>2
  <2> QED BY <2>1
<1>4. ASSUME NEW i \in 0 .. n, i # n, i \in S PROVE i + 1 \in S
  <2> DEFINE m == i + 1
  <2>1. m \in 1 .. n /\ m \in 0 .. n /\ m - 1 = i /\ i \in 0 .. n
    BY <1>4
  <2>2. F(i) = G(i) <=> \A j \in 1 .. i : f[o + j] = g[p + j]
    BY <1>4
  <2>3. \A j \in 1 .. m : j \in 1 .. i \/ j = m
    OBVIOUS
  <2>4. \A j \in 1 .. i : j \in 1 .. m
    OBVIOUS
  <2>5. m \in 1 .. m
    OBVIOUS
  <2> HIDE DEF m
  <2>6. /\ F(m) = 2 * F(i) + f[o + m] /\ G(m) = 2 * G(i) + g[p + m]
        /\ F(i) \in Nat /\ G(i) \in Nat
    BY <1>1, <1>2, <2>1
  <2>7. f[o + m] \in {0, 1} /\ g[p + m] \in {0, 1}
    BY <2>1 DEF AreBits
  <2>8. F(m) = G(m) <=> F(i) = G(i) /\ f[o + m] = g[p + m]
    <3> DEFINE x == f[o + m]
               y == g[p + m]
    <3>1. x \in {0, 1} /\ y \in {0, 1} /\ F(m) = 2 * F(i) + x /\ G(m) = 2 * G(i) + y
      BY <2>6, <2>7
    <3> HIDE DEF x, y
    <3>2. F(m) = G(m) <=> F(i) = G(i) /\ x = y
      BY <2>6, <3>1
    <3> QED BY <3>2 DEF x, y
  <2>9. F(m) = G(m) <=> \A j \in 1 .. m : f[o + j] = g[p + j]
    BY <2>2, <2>3, <2>4, <2>5, <2>8
  <2>10. m \in S
    BY <2>1, <2>9
  <2> QED BY <2>10 DEF m
<1>5. n \in S
  <2> HIDE DEF S
  <2>1. n \in 0 .. n
    OBVIOUS
  <2> QED BY <1>3, <1>4, <2>1, BoundedInduction
<1>6. F(n) = G(n) <=> \A i \in 1 .. n : f[o + i] = g[p + i]
  BY <1>5
<1> QED BY <1>6 DEF Alike, F, G

\* A number whose digits they are.
HasDigits(buf, offset, v, n) == \A i \in 1 .. n : buf[offset + i] = Halved(v, n - i) % 2

\* A number that fits is read from its digits.
LEMMA DigitsAreRead ==
    ASSUME NEW buf, NEW offset \in Nat, NEW n \in Nat, NEW v \in Nat, Halved(v, n) = 0,
           HasDigits(buf, offset, v, n)
    PROVE  GetBits(buf, offset, n) = v
<1> DEFINE a == [i \in 0 .. n |-> Halved(v, n - i)]
<1>1. \A k \in Nat : Halved(v, k) \in Nat /\ Halved(v, k + 1) = Halved(v, k) \div 2
  BY HalvedSteps
<1>2. \A i \in 0 .. n : n - i \in Nat
  OBVIOUS
<1>3. a \in [0 .. n -> Nat] /\ a[0] = 0 /\ a[n] = v
  <2>1. n - 0 = n /\ n - n = 0 /\ 0 \in 0 .. n /\ n \in 0 .. n
    OBVIOUS
  <2> QED BY <1>1, <1>2, <2>1, HalvedSteps
<1>4. ASSUME NEW i \in 1 .. n PROVE a[i] = 2 * a[i - 1] + buf[offset + i]
  <2> DEFINE k == n - i
             m == Halved(v, k)
  <2>1. k \in Nat /\ n - (i - 1) = k + 1 /\ i \in 0 .. n /\ i - 1 \in 0 .. n
    OBVIOUS
  <2>2. m \in Nat /\ Halved(v, k + 1) = m \div 2
    BY <1>1, <2>1
  <2>3. a[i] = m /\ a[i - 1] = m \div 2 /\ buf[offset + i] = m % 2
    BY <2>1, <2>2 DEF HasDigits
  <2> HIDE DEF m, a
  <2>4. m = 2 * (m \div 2) + (m % 2)
    BY <2>2, LowBit
  <2> QED BY <2>3, <2>4
<1> HIDE DEF a
<1>5. Gets(a, buf, offset, n)
  BY <1>3, <1>4 DEF Gets
<1> QED BY <1>3, <1>5, BitsAreRead

\* A buffer of m bits.
IsBuffer(buf, m) == buf \in [1 .. m -> {0, 1}]

\* The bits of a buffer are bits.
LEMMA BufferBits ==
    ASSUME NEW m \in Nat, NEW buf, IsBuffer(buf, m), NEW offset \in Nat, NEW n \in Nat, offset + n <= m
    PROVE  AreBits(buf, offset, n)
<1>1. \A i \in 1 .. n : offset + i \in 1 .. m
  OBVIOUS
<1>2. \A j \in 1 .. m : buf[j] \in {0, 1}
  BY DEF IsBuffer
<1> QED BY <1>1, <1>2 DEF AreBits

\* No bit of a buffer is set after an offset.
Clear(buf, offset, m) == \A at \in 1 .. m : at > offset => buf[at] = 0

\* What set_bits does to a buffer that is clear after the bits before.
WasSet(b, buf, offset, v, n, m) ==
    /\ IsBuffer(b, m) /\ GetBits(b, offset, n) = v
    /\ \A at \in 1 .. m : at <= offset => b[at] = buf[at]
    /\ Clear(b, offset + n, m)

\* get_bits reads what set_bits has set, and the other bits stay.
LEMMA SetIsRead ==
    ASSUME NEW m \in Nat, NEW buf, IsBuffer(buf, m), NEW offset \in Nat, NEW n \in Nat, offset + n <= m,
           NEW v \in Nat, Halved(v, n) = 0, Clear(buf, offset, m)
    PROVE  WasSet(SetBits(buf, offset, v, n), buf, offset, v, n, m)
<1> DEFINE b == SetBits(buf, offset, v, n)
<1>1. DOMAIN buf = 1 .. m /\ \A at \in 1 .. m : buf[at] \in {0, 1}
  BY DEF IsBuffer
<1>2. b = [at \in 1 .. m |->
             IF at - offset \in 1 .. n /\ Halved(v, n - (at - offset)) % 2 = 1 THEN 1 ELSE buf[at]]
  BY <1>1 DEF SetBits
<1>3. IsBuffer(b, m)
  BY <1>1, <1>2 DEF IsBuffer
<1>4. \A at \in 1 .. m : b[at] = IF at - offset \in 1 .. n /\ Halved(v, n - (at - offset)) % 2 = 1
                                THEN 1 ELSE buf[at]
  BY <1>2
<1> HIDE DEF b
<1>5. \A at \in 1 .. m : at <= offset => b[at] = buf[at]
  <2>1. \A at \in 1 .. m : at <= offset => at - offset \notin 1 .. n
    OBVIOUS
  <2> QED BY <1>4, <2>1
<1>6. Clear(b, offset + n, m)
  <2>1. \A at \in 1 .. m : at > offset + n => at - offset \notin 1 .. n /\ at > offset
    OBVIOUS
  <2> QED BY <1>4, <2>1 DEF Clear
<1>7. HasDigits(b, offset, v, n)
  <2>1. ASSUME NEW i \in 1 .. n PROVE b[offset + i] = Halved(v, n - i) % 2
    <3> DEFINE at == offset + i
    <3>1. at \in 1 .. m /\ at - offset = i /\ at > offset /\ n - i \in Nat
      OBVIOUS
    <3>2. Halved(v, n - i) \in Nat
      BY <3>1, HalvedSteps
    <3>3. Halved(v, n - i) % 2 \in {0, 1}
      BY <3>2, LowBit
    <3> HIDE DEF at
    <3>4. b[at] = IF Halved(v, n - i) % 2 = 1 THEN 1 ELSE buf[at]
      BY <1>4, <3>1
    <3>5. buf[at] = 0
      BY <3>1 DEF Clear
    <3> QED BY <3>3, <3>4, <3>5 DEF at
  <2> QED BY <2>1 DEF HasDigits
<1>8. GetBits(b, offset, n) = v
  BY <1>7, DigitsAreRead
<1> QED BY <1>3, <1>5, <1>6, <1>8 DEF WasSet, b

\* The word before word w ends where w begins, and an earlier one no later.
LEMMA WordPlaces ==
    ASSUME NEW W \in Nat \ {0}, NEW w \in Nat \ {0}
    PROVE  /\ (w - 1) * W \in Nat /\ w * W \in Nat /\ (w - 1) * W + W = w * W /\ (w - 1) * W <= w * W
           /\ \A u \in 1 .. w - 1 : (u - 1) * W \in Nat /\ (u - 1) * W + W <= (w - 1) * W
<1>1. (w - 1) * W \in Nat /\ w * W \in Nat /\ (w - 1) * W + W = w * W
  OBVIOUS
<1>2. ASSUME NEW u \in 1 .. w - 1 PROVE (u - 1) * W \in Nat /\ (u - 1) * W + W <= (w - 1) * W
  <2> DEFINE d == w - 1 - u
  <2>1. d \in Nat /\ u \in Nat \ {0} /\ w - 1 = u + d
    OBVIOUS
  <2> HIDE DEF d
  <2>2. d * W \in Nat /\ (u - 1) * W \in Nat /\ (u - 1) * W + W = u * W /\ u * W \in Nat
    BY <2>1
  <2>3. (w - 1) * W = u * W + d * W
    BY <2>1
  <2> QED BY <2>2, <2>3
<1> QED BY <1>1, <1>2

\* The words of a phrase are in a buffer from its first bit on.
HoldsWords(buf, indices, n) == \A w \in 1 .. n : GetBits(buf, (w - 1) * WordBits, WordBits) = indices[w]

\* A number of words fits in a buffer of m bits.
LEMMA WordFits ==
    ASSUME NEW N \in Nat, NEW m \in Nat, N * WordBits <= m, NEW w \in 1 .. N
    PROVE  /\ (w - 1) * WordBits \in Nat /\ WordBits \in Nat /\ (w - 1) * WordBits + WordBits <= m
           /\ (w - 1) * WordBits + WordBits = w * WordBits /\ w * WordBits <= N * WordBits
<1>1. WordBits \in Nat \ {0} /\ w \in Nat \ {0} /\ N + 1 \in Nat \ {0} /\ w \in 1 .. N + 1 - 1 /\ N + 1 - 1 = N
  BY MnemonicAssumption
<1>2. (w - 1) * WordBits \in Nat /\ (w - 1) * WordBits + WordBits = w * WordBits
  BY <1>1, WordPlaces
<1>3. (w - 1) * WordBits + WordBits <= N * WordBits
  BY <1>1, WordPlaces
<1>4. N * WordBits \in Nat
  BY <1>1
<1> HIDE DEF MnemonicAssumption
<1> DEFINE x == (w - 1) * WordBits
           y == N * WordBits
           z == w * WordBits
<1>5. x \in Nat /\ y \in Nat /\ x + WordBits = z /\ x + WordBits <= y /\ y <= m
  BY <1>2, <1>3, <1>4
<1> HIDE DEF x, y, z
<1>6. x + WordBits <= m /\ z <= y
  BY <1>1, <1>5
<1> QED BY <1>1, <1>5, <1>6 DEF x, y, z

\* The buffers that a phrase is written to, one word after the other.
Fills(a, indices, m) ==
    /\ \A w \in 0 .. Len(indices) : IsBuffer(a[w], m)
    /\ a[0] = [at \in 1 .. m |-> 0]
    /\ \A w \in 1 .. Len(indices) : a[w] = SetBits(a[w - 1], (w - 1) * WordBits, indices[w], WordBits)

\* After each of them, the words up to it are written and nothing else is.
LEMMA WordsAreWritten ==
    ASSUME NEW indices \in Seq(0 .. ListSize - 1), NEW m \in Nat, Len(indices) * WordBits <= m,
           NEW a, Fills(a, indices, m)
    PROVE  HoldsWords(a[Len(indices)], indices, Len(indices))
<1> DEFINE N == Len(indices)
           Done(w) == HoldsWords(a[w], indices, w) /\ Clear(a[w], w * WordBits, m)
           S == {w \in 0 .. N : Done(w)}
<1>1. N \in Nat /\ WordBits \in Nat \ {0} /\ N * WordBits <= m
  BY MnemonicAssumption
<1>2. \A w \in 1 .. N : indices[w] \in Nat /\ Halved(indices[w], WordBits) = 0
  <2>1. \A w \in 1 .. N : indices[w] \in 0 .. ListSize - 1
    BY ElementOfSeq
  <2>2. ListSize \in Nat /\ \A index \in 0 .. ListSize - 1 : Halved(index, WordBits) = 0
    BY MnemonicAssumption
  <2> HIDE DEF N
  <2> QED BY <2>1, <2>2
<1>3. 0 \in S
  <2>1. a[0] = [at \in 1 .. m |-> 0] /\ 0 * WordBits = 0
    BY <1>1 DEF Fills
  <2>2. Clear(a[0], 0, m)
    BY <2>1 DEF Clear
  <2>3. HoldsWords(a[0], indices, 0)
    BY DEF HoldsWords
  <2> QED BY <1>1, <2>1, <2>2, <2>3
<1>4. ASSUME NEW i \in 0 .. N, i # N, i \in S PROVE i + 1 \in S
  <2> DEFINE w == i + 1
             o == (w - 1) * WordBits
  <2>0. w \in 1 .. N /\ w \in 0 .. N /\ w - 1 = i /\ w \in Nat \ {0}
    BY <1>1, <1>4
  <2> HIDE DEF w
  <2>1. /\ o \in Nat /\ o + WordBits <= m /\ o + WordBits = w * WordBits
        /\ \A u \in 1 .. w - 1 : (u - 1) * WordBits \in Nat /\ (u - 1) * WordBits + WordBits <= o
    BY <1>1, <2>0, WordFits, WordPlaces
  <2>2. IsBuffer(a[i], m) /\ a[w] = SetBits(a[i], o, indices[w], WordBits)
    <3> HIDE DEF o
    <3>1. a[w] = SetBits(a[w - 1], (w - 1) * WordBits, indices[w], WordBits)
      BY <2>0 DEF Fills
    <3>2. IsBuffer(a[i], m)
      BY <1>4 DEF Fills
    <3> QED BY <2>0, <3>1, <3>2 DEF o
  <2>3. HoldsWords(a[i], indices, i) /\ Clear(a[i], o, m)
    BY <1>4, <2>0
  <2> HIDE DEF o
  <2>4. WasSet(a[w], a[i], o, indices[w], WordBits, m)
    BY <1>1, <1>2, <2>0, <2>1, <2>2, <2>3, SetIsRead
  <2>5. IsBuffer(a[w], m) /\ GetBits(a[w], o, WordBits) = indices[w] /\ Clear(a[w], w * WordBits, m)
        /\ \A at \in 1 .. m : at <= o => a[w][at] = a[i][at]
    BY <2>1, <2>4 DEF WasSet
  <2>6. ASSUME NEW u \in 1 .. w PROVE GetBits(a[w], (u - 1) * WordBits, WordBits) = indices[u]
    <3>1. CASE u = w
      BY <2>5, <3>1 DEF o
    <3>2. CASE u # w
      <4> DEFINE p == (u - 1) * WordBits
      <4>1. u \in 1 .. w - 1 /\ u \in 1 .. i
        BY <2>0, <3>2
      <4>2. p \in Nat /\ p + WordBits <= o
        BY <2>1, <4>1
      <4>3. GetBits(a[i], p, WordBits) = indices[u]
        BY <2>3, <4>1 DEF HoldsWords
      <4> HIDE DEF p
      <4>4. p + WordBits <= m
        BY <1>1, <2>1, <4>2
      <4>5. AreBits(a[w], p, WordBits) /\ AreBits(a[i], p, WordBits)
        BY <1>1, <2>2, <2>5, <4>2, <4>4, BufferBits
      <4>6. \A j \in 1 .. WordBits : p + j \in 1 .. m /\ p + j <= o
        BY <1>1, <2>1, <4>2, <4>4
      <4>7. Alike(a[w], p, a[i], p, WordBits)
        BY <2>5, <4>6 DEF Alike
      <4>8. GetBits(a[w], p, WordBits) = GetBits(a[i], p, WordBits)
        BY <1>1, <4>2, <4>5, <4>7, SameBits
      <4> QED BY <4>3, <4>8 DEF p
    <3> QED BY <3>1, <3>2
  <2>7. Done(w)
    BY <2>5, <2>6 DEF HoldsWords
  <2> QED BY <2>0, <2>7 DEF w
<1>5. N \in S
  <2> HIDE DEF S
  <2>1. N \in 0 .. N
    BY <1>1
  <2> QED BY <1>1, <1>3, <1>4, <2>1, BoundedInduction
<1> QED BY <1>5

\* The buffer that the words are packed into is the last of them.
LEMMA CombinedIs ==
    ASSUME NEW indices, NEW bits, NEW m, m = bits + ByteBits, Len(indices) \in Nat, NEW a,
           Fills(a, indices, m), DOMAIN a = 0 .. Len(indices), a = [w \in DOMAIN a |-> a[w]]
    PROVE  Combined(indices, bits) = a[Len(indices)]
<1> DEFINE N == Len(indices)
           Step(r) == [w \in 0 .. N |->
                          IF w = 0 THEN [at \in 1 .. bits + ByteBits |-> 0]
                          ELSE SetBits(r[w - 1], (w - 1) * WordBits, indices[w], WordBits)]
           r == CHOOSE r : r = Step(r)
<1>1. a[0] = [at \in 1 .. bits + ByteBits |-> 0]
      /\ \A w \in 1 .. N : a[w] = SetBits(a[w - 1], (w - 1) * WordBits, indices[w], WordBits)
  BY DEF Fills
<1>2. a = Step(a)
  <2>1. ASSUME NEW w \in 0 .. N
        PROVE  a[w] = IF w = 0 THEN [at \in 1 .. bits + ByteBits |-> 0]
                      ELSE SetBits(a[w - 1], (w - 1) * WordBits, indices[w], WordBits)
    <3>1. w = 0 \/ (w # 0 /\ w \in 1 .. N)
      OBVIOUS
    <3> QED BY <1>1, <3>1
  <2> QED BY <2>1
<1>3. r = Step(r)
  <2> HIDE DEF Step
  <2> QED BY <1>2
<1>4. Combined(indices, bits) = r[N]
  BY DEF Combined
<1>5. r[0] = [at \in 1 .. bits + ByteBits |-> 0]
      /\ \A w \in 1 .. N : r[w] = SetBits(r[w - 1], (w - 1) * WordBits, indices[w], WordBits)
  <2> HIDE DEF r
  <2>1. \A w \in 0 .. N : r[w] = IF w = 0 THEN [at \in 1 .. bits + ByteBits |-> 0]
                                 ELSE SetBits(r[w - 1], (w - 1) * WordBits, indices[w], WordBits)
    BY <1>3
  <2>2. 0 \in 0 .. N /\ \A w \in 1 .. N : w \in 0 .. N /\ w # 0
    OBVIOUS
  <2> QED BY <2>1, <2>2
<1> HIDE DEF r
<1> DEFINE S == {w \in 0 .. N : a[w] = r[w]}
<1>6. 0 \in S
  <2>1. a[0] = r[0]
    BY <1>1, <1>5
  <2>2. 0 \in 0 .. N
    OBVIOUS
  <2> QED BY <2>1, <2>2
<1>7. ASSUME NEW i \in 0 .. N, i # N, i \in S PROVE i + 1 \in S
  <2> DEFINE w == i + 1
  <2>1. w \in 1 .. N /\ w \in 0 .. N /\ w - 1 = i /\ a[i] = r[i]
    BY <1>7
  <2> HIDE DEF w
  <2>2. /\ a[w] = SetBits(a[w - 1], (w - 1) * WordBits, indices[w], WordBits)
        /\ r[w] = SetBits(r[w - 1], (w - 1) * WordBits, indices[w], WordBits)
    BY <1>1, <1>5, <2>1
  <2>3. a[w] = r[w]
    BY <2>1, <2>2
  <2>4. w \in S
    BY <2>1, <2>3
  <2> QED BY <2>4 DEF w
<1>8. N \in S
  <2> HIDE DEF S
  <2>1. N \in 0 .. N
    OBVIOUS
  <2> QED BY <1>6, <1>7, <2>1, BoundedInduction
<1> QED BY <1>4, <1>8

\* A phrase of words of the list is read from the buffer that it is packed into.
LEMMA PackedIsRead ==
    ASSUME NEW indices \in Seq(0 .. ListSize - 1), NEW bits \in Nat, Len(indices) * WordBits <= bits + ByteBits
    PROVE  /\ IsBuffer(Combined(indices, bits), bits + ByteBits)
           /\ HoldsWords(Combined(indices, bits), indices, Len(indices))
<1> DEFINE N == Len(indices)
           m == bits + ByteBits
           V == {b \in [1 .. m -> {0, 1}] : TRUE}
           zeros == [at \in 1 .. m |-> 0]
           step == [p \in (1 .. N) \X V |-> SetBits(p[2], (p[1] - 1) * WordBits, indices[p[1]], WordBits)]
<1>1. N \in Nat /\ m \in Nat /\ WordBits \in Nat \ {0}
  BY MnemonicAssumption
<1>2. zeros \in V
  OBVIOUS
<1>3. step \in [(1 .. N) \X V -> V]
  <2>1. ASSUME NEW w \in 1 .. N, NEW b \in V PROVE SetBits(b, (w - 1) * WordBits, indices[w], WordBits) \in V
    <3> DEFINE o == (w - 1) * WordBits
               v == indices[w]
    <3>1. SetBits(b, o, v, WordBits)
             = [at \in 1 .. m |-> IF at - o \in 1 .. WordBits /\ Halved(v, WordBits - (at - o)) % 2 = 1
                                  THEN 1 ELSE b[at]]
      BY DEF SetBits
    <3> HIDE DEF o, v, m
    <3>2. \A at \in 1 .. m : b[at] \in {0, 1}
      OBVIOUS
    <3> QED BY <3>1, <3>2 DEF o, v
  <2> HIDE DEF V
  <2>2. ASSUME NEW p \in (1 .. N) \X V
        PROVE  SetBits(p[2], (p[1] - 1) * WordBits, indices[p[1]], WordBits) \in V
    BY <2>1
  <2> QED BY <2>2
<1>4. PICK a : Recurs(a, N, V, zeros, step)
  <2> HIDE DEF step, V, N, zeros
  <2> QED BY <1>1, <1>2, <1>3, Recursion
<1>5. a \in [0 .. N -> V] /\ a[0] = zeros /\ \A w \in 1 .. N : a[w] = step[<<w, a[w - 1]>>]
  BY <1>4 DEF Recurs
<1>6. ASSUME NEW w \in 1 .. N
      PROVE  a[w] = SetBits(a[w - 1], (w - 1) * WordBits, indices[w], WordBits)
  <2> HIDE DEF V, zeros
  <2>1. w - 1 \in 0 .. N
    BY <1>1
  <2>2. <<w, a[w - 1]>> \in (1 .. N) \X V
    BY <1>5, <2>1
  <2>3. a[w] = step[<<w, a[w - 1]>>]
    BY <1>5
  <2> QED BY <2>2, <2>3
<1>7. \A w \in 0 .. N : IsBuffer(a[w], m)
  BY <1>5 DEF IsBuffer
<1>8. Fills(a, indices, m)
  BY <1>5, <1>6, <1>7 DEF Fills
<1>9. DOMAIN a = 0 .. N /\ a = [w \in DOMAIN a |-> a[w]] /\ N \in 0 .. N
  BY <1>1, <1>5
<1> HIDE DEF step, V, zeros
<1>10. Combined(indices, bits) = a[N]
  BY <1>1, <1>8, <1>9, CombinedIs
<1>11. HoldsWords(a[N], indices, N)
  BY <1>1, <1>8, WordsAreWritten
<1> QED BY <1>7, <1>9, <1>10, <1>11

\* The first N words of two buffers are the same.
AgreeOn(f, g, N) ==
    \A w \in 1 .. N : GetBits(f, (w - 1) * WordBits, WordBits) = GetBits(g, (w - 1) * WordBits, WordBits)

\* Two buffers hold the same words exactly when their bits are the same.
LEMMA SameWords ==
    ASSUME NEW N \in Nat, NEW m \in Nat, N * WordBits <= m, NEW f, NEW g, IsBuffer(f, m), IsBuffer(g, m)
    PROVE  AgreeOn(f, g, N) <=> Alike(f, 0, g, 0, N * WordBits)
<1> DEFINE o(w) == (w - 1) * WordBits
           S == {w \in 0 .. N : (\A u \in 1 .. w : Alike(f, o(u), g, o(u), WordBits))
                                   <=> \A at \in 1 .. w * WordBits : f[at] = g[at]}
<1>1. WordBits \in Nat \ {0}
  BY MnemonicAssumption
<1>2. ASSUME NEW w \in 1 .. N
      PROVE  /\ o(w) \in Nat /\ o(w) + WordBits = w * WordBits
             /\ GetBits(f, o(w), WordBits) = GetBits(g, o(w), WordBits)
                   <=> Alike(f, o(w), g, o(w), WordBits)
  <2>1. o(w) \in Nat /\ WordBits \in Nat /\ o(w) + WordBits <= m /\ o(w) + WordBits = w * WordBits
    BY WordFits
  <2> DEFINE x == o(w)
  <2> HIDE DEF o
  <2>2. AreBits(f, x, WordBits) /\ AreBits(g, x, WordBits)
    BY <2>1, BufferBits
  <2>3. GetBits(f, x, WordBits) = GetBits(g, x, WordBits) <=> Alike(f, x, g, x, WordBits)
    BY <2>1, <2>2, SameBits
  <2> QED BY <2>1, <2>3
<1> HIDE DEF o
<1>3. 0 \in S
  <2>1. 0 * WordBits = 0
    BY <1>1
  <2>2. (\A u \in 1 .. 0 : Alike(f, o(u), g, o(u), WordBits)) /\ \A at \in 1 .. 0 : f[at] = g[at]
    OBVIOUS
  <2> QED BY <2>1, <2>2
<1>4. ASSUME NEW i \in 0 .. N, i # N, i \in S PROVE i + 1 \in S
  <2> DEFINE w == i + 1
             x == o(w)
             y == w * WordBits
  <2>1. w \in 1 .. N /\ w \in 0 .. N /\ w - 1 = i
    BY <1>4
  <2> HIDE DEF w
  <2>2. x \in Nat /\ x + WordBits = y /\ x = i * WordBits
    BY <1>2, <2>1 DEF o
  <2>3. (\A u \in 1 .. i : Alike(f, o(u), g, o(u), WordBits)) <=> \A at \in 1 .. x : f[at] = g[at]
    BY <1>4, <2>2
  <2>4. (\A u \in 1 .. w : Alike(f, o(u), g, o(u), WordBits))
           <=> (\A u \in 1 .. i : Alike(f, o(u), g, o(u), WordBits)) /\ Alike(f, x, g, x, WordBits)
    <3>1. \A u : u \in 1 .. w <=> u \in 1 .. i \/ u = w
      BY <2>1
    <3> QED BY <3>1
  <2> HIDE DEF x, y
  <2>5. (\A at \in 1 .. y : f[at] = g[at])
           <=> (\A at \in 1 .. x : f[at] = g[at]) /\ Alike(f, x, g, x, WordBits)
    <3>1. ASSUME NEW at \in 1 .. y PROVE at \in 1 .. x \/ \E j \in 1 .. WordBits : at = x + j
      <4>1. at \notin 1 .. x => at - x \in 1 .. WordBits /\ at = x + (at - x)
        BY <1>1, <2>2
      <4> QED BY <4>1
    <3>2. (\A at \in 1 .. x : at \in 1 .. y) /\ \A j \in 1 .. WordBits : x + j \in 1 .. y
      BY <1>1, <2>2
    <3> QED BY <3>1, <3>2 DEF Alike
  <2>6. (\A u \in 1 .. w : Alike(f, o(u), g, o(u), WordBits)) <=> \A at \in 1 .. y : f[at] = g[at]
    BY <2>3, <2>4, <2>5
  <2>7. w \in S
    BY <2>1, <2>6 DEF y
  <2> QED BY <2>7 DEF w
<1>5. N \in S
  <2> HIDE DEF S
  <2>1. N \in 0 .. N
    OBVIOUS
  <2> QED BY <1>3, <1>4, <2>1, BoundedInduction
<1>6. (\A u \in 1 .. N : Alike(f, o(u), g, o(u), WordBits)) <=> \A at \in 1 .. N * WordBits : f[at] = g[at]
  BY <1>5
<1>7. (\A w \in 1 .. N : GetBits(f, o(w), WordBits) = GetBits(g, o(w), WordBits))
         <=> \A w \in 1 .. N : Alike(f, o(w), g, o(w), WordBits)
  BY <1>2
<1>8. Alike(f, 0, g, 0, N * WordBits) <=> \A at \in 1 .. N * WordBits : f[at] = g[at]
  <2>1. \A at \in 1 .. N * WordBits : 0 + at = at
    BY <1>1
  <2> QED BY <2>1 DEF Alike
<1> QED BY <1>6, <1>7, <1>8 DEF o, AgreeOn

\* The words of a phrase fill the entropy and its checksum.
LEMMA PhraseFills ==
    ASSUME NEW bits \in EntropyBits
    PROVE  /\ bits \in Nat \ {0} /\ ChecksumBits[bits] \in Nat \ {0} /\ ByteBits \in Nat
           /\ ChecksumBits[bits] <= ByteBits
           /\ PhraseLength(bits) \in Nat
           /\ PhraseLength(bits) * WordBits = bits + ChecksumBits[bits]
<1> DEFINE c == ChecksumBits[bits]
           x == bits + c
           W == WordBits
<1>1. /\ bits \in Nat \ {0} /\ c \in 1 .. ByteBits /\ ByteBits \in Nat /\ W \in Nat \ {0}
      /\ x % W = 0
  <2>1. EntropyBits \subseteq Nat \ {0} /\ ByteBits \in Nat /\ W \in Nat \ {0}
    BY MnemonicAssumption
  <2>2. c \in 1 .. ByteBits /\ x % W = 0
    BY MnemonicAssumption
  <2> QED BY <2>1, <2>2
<1>2. x \in Nat
  BY <1>1
<1> HIDE DEF x, W
<1>3. x \div W \in Nat /\ (x \div W) * W = x
  BY <1>1, <1>2
<1>4. PhraseLength(bits) = x \div W
  BY DEF PhraseLength, x, W
<1> QED BY <1>1, <1>3, <1>4 DEF x, W

\* A sequence is a function.
LEMMA SeqIsFunction == ASSUME NEW S, NEW s \in Seq(S) PROVE s \in [1 .. Len(s) -> S]
OBVIOUS

\* Entropy and the first byte of its hash, from which its phrase is read.
IsOfPhrase(f, e, bits) ==
    /\ IsBuffer(f, bits + ByteBits)
    /\ \A at \in 1 .. bits : f[at] = e[at]
    /\ \A i \in 1 .. ByteBits : f[bits + i] = HashByte(e)[i]
    /\ AreBits(HashByte(e), 0, ByteBits)
    /\ Phrase(e) = [w \in 1 .. PhraseLength(bits) |-> GetBits(f, (w - 1) * WordBits, WordBits)]

\* The phrase of entropy, word by word.
LEMMA PhraseReads ==
    ASSUME NEW bits \in EntropyBits, NEW e \in Entropies(bits), NEW f, f = e \o HashByte(e)
    PROVE  IsOfPhrase(f, e, bits)
<1> DEFINE h == HashByte(e)
           B == ByteBits
           D == {0, 1}
<1>1. bits \in Nat /\ B \in Nat /\ e \in [1 .. bits -> D]
  BY PhraseFills DEF Entropies
<1>2. h \in [1 .. B -> D]
  BY MnemonicAssumption
<1>3. e \in Seq(D) /\ Len(e) = bits
  <2> HIDE DEF D
  <2> QED BY <1>1
<1>4. h \in Seq(D) /\ Len(h) = B
  <2> HIDE DEF D, h, B
  <2> QED BY <1>1, <1>2
<1>5. f = e \o h
  OBVIOUS
<1> HIDE DEF h, B
<1>6. /\ f \in Seq(D) /\ Len(f) = Len(e) + Len(h)
      /\ \A i \in 1 .. Len(e) + Len(h) : f[i] = IF i <= Len(e) THEN e[i] ELSE h[i - Len(e)]
  <2> HIDE DEF D
  <2> QED BY <1>3, <1>4, <1>5, ConcatProperties
<1>7. Len(f) = bits + B /\ \A i \in 1 .. bits + B : f[i] = IF i <= bits THEN e[i] ELSE h[i - bits]
  BY <1>3, <1>4, <1>6
<1>8. f \in [1 .. bits + B -> D]
  <2> HIDE DEF D
  <2>1. f \in [1 .. Len(f) -> D]
    BY <1>6, SeqIsFunction
  <2> QED BY <1>7, <2>1
<1>9. \A at \in 1 .. bits : f[at] = e[at]
  <2>1. \A at \in 1 .. bits : at \in 1 .. bits + B /\ at <= bits
    BY <1>1
  <2> QED BY <1>7, <2>1
<1>10. ASSUME NEW i \in 1 .. B PROVE f[bits + i] = h[i]
  <2> DEFINE j == bits + i
  <2>1. j \in 1 .. bits + B /\ ~(j <= bits) /\ j - bits = i
    BY <1>1
  <2> HIDE DEF j
  <2>2. f[j] = h[j - bits]
    BY <1>7, <2>1, Zenon
  <2> QED BY <2>1, <2>2, Zenon DEF j
<1>11. AreBits(h, 0, B)
  <2>1. \A i \in 1 .. B : 0 + i = i /\ h[i] \in D
    BY <1>1, <1>2 DEF h, B
  <2> QED BY <2>1 DEF AreBits
<1>12. Phrase(e) = [w \in 1 .. PhraseLength(bits) |-> GetBits(f, (w - 1) * WordBits, WordBits)]
  BY <1>3, <1>5 DEF Phrase, h
<1> QED BY <1>8, <1>9, <1>10, <1>11, <1>12 DEF IsBuffer, IsOfPhrase, h, B

\* What tezos_bip39_validate compares, once the words are found and packed.
Checked(f, bits) ==
    GetBits(f, bits, ChecksumBits[bits]) = GetBits(HashByte(SubSeq(f, 1, bits)), 0, ChecksumBits[bits])

\* The entropy that is packed with a checksum is the entropy of the phrase when
\* the checksum is its own.
LEMMA PackedIsChecked ==
    ASSUME NEW bits \in EntropyBits, NEW indices \in Seq(0 .. ListSize - 1),
           Len(indices) = PhraseLength(bits), NEW f, f = Combined(indices, bits)
    PROVE  Checked(f, bits) <=> indices \in Phrases[bits]
<1> DEFINE N == PhraseLength(bits)
           c == ChecksumBits[bits]
           m == bits + ByteBits
           e == SubSeq(f, 1, bits)
           D == {0, 1}
<1>1. /\ bits \in Nat \ {0} /\ c \in Nat \ {0} /\ ByteBits \in Nat /\ c <= ByteBits
      /\ N \in Nat /\ N * WordBits = bits + c /\ m \in Nat /\ N * WordBits <= m
  BY PhraseFills
<1>2. IsBuffer(f, m) /\ HoldsWords(f, indices, N)
  <2>1. Len(indices) * WordBits <= bits + ByteBits /\ bits \in Nat
    BY <1>1
  <2> QED BY <2>1, PackedIsRead
<1>3. e \in Entropies(bits) /\ \A at \in 1 .. bits : e[at] = f[at]
  <2>1. \A at \in 1 .. bits : at \in 1 .. m /\ 1 + at - 1 = at
    BY <1>1
  <2>2. \A at \in 1 .. bits : f[at] \in D
    BY <1>2, <2>1 DEF IsBuffer
  <2> HIDE DEF D
  <2>3. /\ e \in Seq(D) /\ Len(e) = IF 1 <= bits THEN bits - 1 + 1 ELSE 0
        /\ \A i \in 1 .. bits - 1 + 1 : e[i] = f[1 + i - 1]
    BY <1>1, <2>2, SubSeqProperties
  <2> HIDE DEF e
  <2>4. 1 <= bits /\ bits - 1 + 1 = bits
    BY <1>1
  <2>5. Len(e) = bits /\ \A i \in 1 .. bits : e[i] = f[i]
    BY <2>1, <2>3, <2>4
  <2>6. e \in [1 .. Len(e) -> D]
    BY <2>3, SeqIsFunction
  <2> QED BY <2>5, <2>6 DEF Entropies, D
<1>4. Phrases[bits] = {Phrase(entropy) : entropy \in Entropies(bits)}
  BY DEF Phrases
<1> HIDE DEF e
<1>5. ASSUME NEW d \in Entropies(bits), NEW g, g = d \o HashByte(d)
      PROVE  /\ Phrase(d) = indices <=> Alike(f, 0, g, 0, N * WordBits)
             /\ Alike(f, 0, g, 0, N * WordBits) <=>
                   Alike(f, 0, d, 0, bits) /\ Alike(f, bits, HashByte(d), 0, c)
             /\ GetBits(f, bits, c) = GetBits(HashByte(d), 0, c) <=> Alike(f, bits, HashByte(d), 0, c)
  <2>1. /\ IsBuffer(g, m) /\ (\A at \in 1 .. bits : g[at] = d[at])
        /\ (\A i \in 1 .. ByteBits : g[bits + i] = HashByte(d)[i]) /\ AreBits(HashByte(d), 0, ByteBits)
        /\ Phrase(d) = [w \in 1 .. N |-> GetBits(g, (w - 1) * WordBits, WordBits)]
    <3>1. IsOfPhrase(g, d, bits)
      BY <1>5, PhraseReads
    <3> QED BY <3>1 DEF IsOfPhrase
  <2> DEFINE h == HashByte(d)
             F(w) == GetBits(f, (w - 1) * WordBits, WordBits)
             G(w) == GetBits(g, (w - 1) * WordBits, WordBits)
  <2>2. (\A w \in 1 .. N : F(w) = G(w)) <=> Alike(f, 0, g, 0, N * WordBits)
    <3>1. AgreeOn(f, g, N) <=> Alike(f, 0, g, 0, N * WordBits)
      BY <1>1, <1>2, <2>1, SameWords
    <3> QED BY <3>1 DEF AgreeOn
  <2>3. Phrase(d) = indices <=> \A w \in 1 .. N : F(w) = G(w)
    <3>1. Phrase(d) = [w \in 1 .. N |-> G(w)] /\ \A w \in 1 .. N : F(w) = indices[w]
      BY <1>2, <2>1 DEF HoldsWords
    <3> HIDE DEF F, G
    <3>2. indices = [w \in 1 .. N |-> indices[w]]
      <4>1. indices \in [1 .. Len(indices) -> 0 .. ListSize - 1]
        BY SeqIsFunction
      <4> HIDE DEF N
      <4> QED BY <4>1 DEF N
    <3> HIDE DEF N
    <3>3. ASSUME Phrase(d) = indices, NEW w \in 1 .. N PROVE F(w) = G(w)
      BY <3>1, <3>3
    <3>4. ASSUME \A w \in 1 .. N : F(w) = G(w) PROVE Phrase(d) = indices
      <4>1. \A w \in 1 .. N : indices[w] = G(w)
        BY <3>1, <3>4
      <4> QED BY <3>1, <3>2, <4>1
    <3> QED BY <3>3, <3>4
  <2>4. Alike(f, 0, g, 0, N * WordBits) <=> Alike(f, 0, d, 0, bits) /\ Alike(f, bits, h, 0, c)
    <3> HIDE DEF h
    <3>1. /\ \A i \in 1 .. bits : i \in 1 .. bits + c /\ 0 + i = i
          /\ \A i \in 1 .. c : bits + i \in 1 .. bits + c /\ i \in 1 .. ByteBits /\ 0 + i = i
                               /\ 0 + (bits + i) = bits + i
      BY <1>1
    <3>2. \A at \in 1 .. bits + c : at \in 1 .. bits \/ \E i \in 1 .. c : at = bits + i
      <4> TAKE at \in 1 .. bits + c
      <4>1. at \notin 1 .. bits => at - bits \in 1 .. c /\ at = bits + (at - bits)
        BY <1>1
      <4> QED BY <4>1
    <3>3. (\A at \in 1 .. bits + c : f[0 + at] = g[0 + at])
             <=> (\A at \in 1 .. bits : f[at] = g[at]) /\ \A i \in 1 .. c : f[bits + i] = g[bits + i]
      <4>1. \A at \in 1 .. bits + c : 0 + at = at
        BY <1>1
      <4> QED BY <3>1, <3>2, <4>1
    <3>4. (\A at \in 1 .. bits : f[at] = g[at]) <=> Alike(f, 0, d, 0, bits)
      BY <2>1, <3>1 DEF Alike
    <3>5. (\A i \in 1 .. c : f[bits + i] = g[bits + i]) <=> Alike(f, bits, h, 0, c)
      <4>1. \A i \in 1 .. c : g[bits + i] = h[i] /\ 0 + i = i
        BY <2>1, <3>1 DEF h
      <4> QED BY <4>1 DEF Alike
    <3> QED BY <1>1, <3>3, <3>4, <3>5 DEF Alike
  <2>5. GetBits(f, bits, c) = GetBits(h, 0, c) <=> Alike(f, bits, h, 0, c)
    <3>1. bits + c <= m
      BY <1>1
    <3>2. AreBits(f, bits, c)
      BY <1>1, <1>2, <3>1, BufferBits
    <3>3. AreBits(h, 0, c)
      <4>1. \A i \in 1 .. c : i \in 1 .. ByteBits
        BY <1>1
      <4> QED BY <2>1, <4>1 DEF AreBits
    <3> HIDE DEF h
    <3> QED BY <1>1, <3>2, <3>3, SameBits
  <2> QED BY <2>2, <2>3, <2>4, <2>5
<1>6. \A d \in Entropies(bits) : Alike(f, 0, d, 0, bits) <=> d = e
  <2> TAKE d \in Entropies(bits)
  <2>1. d \in [1 .. bits -> D] /\ e \in [1 .. bits -> D]
    BY <1>3 DEF Entropies
  <2>2. \A at \in 1 .. bits : 0 + at = at
    BY <1>1
  <2> HIDE DEF D
  <2>3. d = e <=> \A at \in 1 .. bits : d[at] = e[at]
    <3>1. d = [at \in 1 .. bits |-> d[at]] /\ e = [at \in 1 .. bits |-> e[at]]
      BY <2>1
    <3>2. (\A at \in 1 .. bits : d[at] = e[at]) => [at \in 1 .. bits |-> d[at]] = [at \in 1 .. bits |-> e[at]]
      OBVIOUS
    <3> QED BY <3>1, <3>2
  <2> QED BY <1>3, <2>2, <2>3 DEF Alike
<1>7. Checked(f, bits) <=> Alike(f, bits, HashByte(e), 0, c)
  <2>1. Checked(f, bits) <=> GetBits(f, bits, c) = GetBits(HashByte(e), 0, c)
    BY DEF Checked, e
  <2> QED BY <1>3, <1>5, <2>1
<1>8. \A d \in Entropies(bits) :
         Phrase(d) = indices <=> Alike(f, 0, d, 0, bits) /\ Alike(f, bits, HashByte(d), 0, c)
  BY <1>5
<1>9. indices \in Phrases[bits] <=> Phrase(e) = indices
  <2>1. \A d \in Entropies(bits) : Phrase(d) = indices => d = e
    BY <1>6, <1>8
  <2> QED BY <1>3, <1>4, <2>1
<1> QED BY <1>3, <1>6, <1>7, <1>8, <1>9

\* A phrase of the words that were entered is accepted exactly when it is the
\* phrase of some entropy.
LEMMA EnteredIsChecked ==
    ASSUME NEW bits \in EntropyBits, NEW indices \in Seq(-1 .. ListSize - 1)
    PROVE  Validates(indices, bits) <=> indices \in Phrases[bits]
<1> DEFINE N == PhraseLength(bits)
<1>1. Validates(indices, bits) <=>
         /\ Len(indices) = N /\ \A w \in DOMAIN indices : indices[w] >= 0
         /\ Checked(Combined(indices, bits), bits)
  BY DEF Validates, Checked
<1>2. DOMAIN indices = 1 .. Len(indices)
  OBVIOUS
<1>3. ASSUME Len(indices) = N, \A w \in DOMAIN indices : indices[w] >= 0
      PROVE  Checked(Combined(indices, bits), bits) <=> indices \in Phrases[bits]
  <2>1. \A w \in 1 .. Len(indices) : indices[w] \in -1 .. ListSize - 1 /\ indices[w] >= 0
    BY <1>2, <1>3, ElementOfSeq
  <2>2. ListSize \in Nat
    BY MnemonicAssumption
  <2>3. \A w \in 1 .. Len(indices) : indices[w] \in 0 .. ListSize - 1
    BY <2>1, <2>2
  <2>4. indices \in Seq(0 .. ListSize - 1)
    <3> DEFINE J == 0 .. ListSize - 1
    <3> HIDE DEF J
    <3>1. \A w \in 1 .. Len(indices) : indices[w] \in J
      BY <2>3 DEF J
    <3>2. indices \in Seq(J)
      BY <3>1
    <3> QED BY <3>2 DEF J
  <2> QED BY <1>3, <2>4, PackedIsChecked
<1>4. ASSUME indices \in Phrases[bits]
      PROVE  Len(indices) = N /\ \A w \in DOMAIN indices : indices[w] >= 0
  <2>1. PICK d \in Entropies(bits) : indices = Phrase(d)
    BY <1>4 DEF Phrases
  <2> DEFINE g == d \o HashByte(d)
             G(w) == GetBits(g, (w - 1) * WordBits, WordBits)
  <2>2. IsBuffer(g, bits + ByteBits) /\ Phrase(d) = [w \in 1 .. N |-> G(w)]
    <3> HIDE DEF g
    <3>1. g = d \o HashByte(d)
      BY DEF g
    <3>2. IsOfPhrase(g, d, bits)
      BY <3>1, PhraseReads
    <3> QED BY <3>2 DEF IsOfPhrase
  <2> HIDE DEF g
  <2>3. N \in Nat /\ bits + ByteBits \in Nat /\ N * WordBits <= bits + ByteBits
    BY PhraseFills
  <2>4. ASSUME NEW w \in 1 .. N PROVE G(w) \in Nat
    <3> DEFINE o == (w - 1) * WordBits
    <3>1. o \in Nat /\ WordBits \in Nat /\ o + WordBits <= bits + ByteBits
      BY <2>3, WordFits
    <3> HIDE DEF o
    <3>2. AreBits(g, o, WordBits)
      BY <2>2, <2>3, <3>1, BufferBits
    <3>3. \A k \in 0 .. WordBits : GetBits(g, o, k) \in Nat
      BY <3>1, <3>2, OneBitMore
    <3>4. WordBits \in 0 .. WordBits
      BY <3>1
    <3>5. GetBits(g, o, WordBits) \in Nat
      BY <3>3, <3>4
    <3> QED BY <3>5 DEF o
  <2> HIDE DEF G, N
  <2>5. DOMAIN indices = 1 .. N /\ \A w \in 1 .. N : indices[w] = G(w)
    BY <2>1, <2>2
  <2>6. Len(indices) = N
    <3>1. Len(indices) \in Nat
      OBVIOUS
    <3> DEFINE n == Len(indices)
    <3>2. 1 .. n = 1 .. N /\ n \in Nat
      BY <1>2, <2>5, <3>1
    <3> HIDE DEF n
    <3>3. n \in 1 .. n \/ n = 0
      BY <3>2
    <3>4. N \in 1 .. N \/ N = 0
      BY <2>3
    <3>5. n = N
      BY <2>3, <3>2, <3>3, <3>4
    <3> QED BY <3>5 DEF n
  <2> QED BY <2>4, <2>5, <2>6
<1> QED BY <1>1, <1>3, <1>4

\* The words entered are words of the list, or strange.
LEMMA EnteredWords == MnemonicSpec => [](mnemonic \in Seq(-1 .. ListSize - 1))
<1>1. MnemonicInit => mnemonic \in Seq(-1 .. ListSize - 1)
  BY DEF MnemonicInit
<1>2. mnemonic \in Seq(-1 .. ListSize - 1) /\ [MnemonicNext]_mnemonic
         => (mnemonic \in Seq(-1 .. ListSize - 1))'
  <2> DEFINE J == -1 .. ListSize - 1
  <2>1. ASSUME mnemonic \in Seq(J), NEW index \in J, Enter(index) PROVE mnemonic' \in Seq(J)
    <3> HIDE DEF J
    <3> QED BY <2>1 DEF Enter
  <2> QED BY <2>1 DEF MnemonicNext
<1> QED BY <1>1, <1>2, PTL DEF MnemonicSpec

\* A phrase is accepted exactly when it is the phrase of some entropy, for every
\* hash, size of a byte and of a word, and length (tezos_bip39_validate).
THEOREM PhrasesAreChecked == MnemonicSpec => []PhraseIsChecked
<1>1. mnemonic \in Seq(-1 .. ListSize - 1) => PhraseIsChecked
  BY EnteredIsChecked DEF PhraseIsChecked
<1> QED BY <1>1, EnteredWords, PTL
=============================================================================
