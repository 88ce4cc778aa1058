----------------------------- MODULE NamesProofs -----------------------------
(***************************************************************************)
(* Theorems about Names, for any spellings, flags and modes.               *)
(***************************************************************************)
EXTENDS Names, FiniteSetTheorems, TLAPS

-----------------------------------------------------------------------------
(* The two comparisons of names agree: texts that neither come first of the *)
(* other are the same.                                                       *)

LEMMA Comparisons ==
  ASSUME NEW a \in Names, NEW b \in Names
  PROVE  ~string_less_ci(a, b) /\ ~string_less_ci(b, a) <=> ci_equal(a, b)
<1>1. /\ Fold[a] \in Names /\ Fold[b] \in Names
      /\ Rank[Fold[a]] = Rank[Fold[b]] => Fold[a] = Fold[b]
  BY NamesAssumption
<1>2. Rank[Fold[a]] \in Nat /\ Rank[Fold[b]] \in Nat
  BY <1>1, NamesAssumption
<1>3. Lower[a] = Rank[Fold[a]] /\ Lower[b] = Rank[Fold[b]]
  BY DEF Lower
<1> QED BY <1>1, <1>2, <1>3 DEF string_less_ci, ci_equal

LEMMA MatchingKeys ==
  ASSUME NEW ext, DOMAIN ext \subseteq Names, NEW n \in Names
  PROVE  Matching(ext, n) = {k \in DOMAIN ext : ci_equal(k, n)}
BY Comparisons DEF Matching

LEMMA PlaceMatches ==
  ASSUME NEW ext, NEW n, Extended(ext, n)
  PROVE  Place(ext, n) \in Matching(ext, n)
BY DEF Place, Extended

-----------------------------------------------------------------------------
(* What an edit does to a map: of the names and of the values. *)

(* A lookup of n gives the same in both maps. *)
ReadsSame(ext, new, n) ==
  /\ Extended(new, n) <=> Extended(ext, n)
  /\ Extended(ext, n) => new[Place(new, n)] = ext[Place(ext, n)]

KeptBut(ext, new, name) == \A n \in Names : ~ci_equal(n, name) => ReadsSame(ext, new, n)

LEMMA SameMatching ==
  ASSUME NEW ext, NEW new, NEW n, Matching(new, n) = Matching(ext, n),
         \A k \in Matching(ext, n) : new[k] = ext[k]
  PROVE  ReadsSame(ext, new, n)
<1>1. Place(new, n) = Place(ext, n) /\ (Extended(new, n) <=> Extended(ext, n))
  BY DEF Place, Extended
<1> QED BY <1>1, PlaceMatches DEF ReadsSame

LEMMA NamedEdits ==
  ASSUME NEW ext, DOMAIN ext \subseteq Names, NEW name \in Names, NEW value
  PROVE  LET new == Named(ext, name, value) IN
         /\ \A n \in Names : ci_equal(n, name) =>
              Extended(new, n) /\ new[Place(new, n)] = value
         /\ KeptBut(ext, new, name)
<1> DEFINE p == IF Extended(ext, name) THEN Place(ext, name) ELSE name
           new == Named(ext, name, value)
<1>1. /\ DOMAIN new = DOMAIN ext \cup {p} /\ new[p] = value
      /\ \A k \in DOMAIN ext \ {p} : new[k] = ext[k]
  BY DEF Named, Put
<1>2. p \in Names /\ ci_equal(p, name)
  BY PlaceMatches, MatchingKeys DEF ci_equal
<1>3. Extended(ext, name) => p \in DOMAIN ext
  BY PlaceMatches, MatchingKeys
<1> HIDE DEF p, new
<1>4. DOMAIN new \subseteq Names
  BY <1>1, <1>2
<1>5. ASSUME NEW n \in Names, ci_equal(n, name)
      PROVE  Extended(new, n) /\ new[Place(new, n)] = value
  <2>1. \A k : ci_equal(k, n) <=> ci_equal(k, name)
    BY <1>5 DEF ci_equal
  <2>2. CASE Extended(ext, name)
    <3>1. Matching(new, n) = Matching(ext, name)
      BY <1>1, <1>3, <1>4, <2>1, <2>2, MatchingKeys
    <3>2. Place(new, n) = p /\ Extended(new, n)
      BY <2>2, <3>1 DEF Place, Extended, p
    <3> QED BY <1>1, <3>2
  <2>3. CASE ~Extended(ext, name)
    <3>1. Matching(ext, name) = {} /\ p = name
      BY <2>3 DEF Extended, p
    <3>2. Matching(new, n) = {p}
      BY <1>1, <1>2, <1>4, <2>1, <3>1, MatchingKeys
    <3>3. Place(new, n) = p /\ Extended(new, n)
      BY <3>2 DEF Place, Extended
    <3> QED BY <1>1, <3>3
  <2> QED BY <2>2, <2>3
<1>6. ASSUME NEW n \in Names, ~ci_equal(n, name)
      PROVE  ReadsSame(ext, new, n)
  <2>1. ~ci_equal(p, n)
    BY <1>2, <1>6 DEF ci_equal
  <2>2. Matching(new, n) = Matching(ext, n)
    <3>1. /\ Matching(new, n) = {k \in DOMAIN new : ci_equal(k, n)}
          /\ Matching(ext, n) = {k \in DOMAIN ext : ci_equal(k, n)}
      BY <1>4, MatchingKeys
    <3> QED BY <1>1, <2>1, <3>1
  <2>3. \A k \in Matching(ext, n) : new[k] = ext[k]
    BY <1>1, <2>1, MatchingKeys
  <2> QED BY <2>2, <2>3, SameMatching
<1> QED BY <1>5, <1>6 DEF KeptBut, new

LEMMA ErasedEdits ==
  ASSUME NEW ext, DOMAIN ext \subseteq Names, NEW name \in Names
  PROVE  LET new == Erased(ext, name) IN
         /\ \A n \in Names : ci_equal(n, name) => ~Extended(new, n)
         /\ KeptBut(ext, new, name)
<1> DEFINE new == Erased(ext, name)
<1>1. /\ DOMAIN new = DOMAIN ext \ Matching(ext, name)
      /\ \A k \in DOMAIN new : new[k] = ext[k]
  BY DEF Erased, Restrict
<1> HIDE DEF new
<1>2. DOMAIN new = {k \in DOMAIN ext : ~ci_equal(k, name)} /\ DOMAIN new \subseteq Names
  BY <1>1, MatchingKeys
<1>3. ASSUME NEW n \in Names, ci_equal(n, name)
      PROVE  ~Extended(new, n)
  BY <1>2, <1>3, MatchingKeys DEF Extended, ci_equal
<1>4. ASSUME NEW n \in Names, ~ci_equal(n, name)
      PROVE  ReadsSame(ext, new, n)
  <2>1. Matching(new, n) = Matching(ext, n)
    <3>1. \A k : ci_equal(k, n) => ~ci_equal(k, name)
      BY <1>4 DEF ci_equal
    <3> QED BY <1>2, <3>1, MatchingKeys
  <2>2. \A k \in Matching(ext, n) : new[k] = ext[k]
    BY <1>1, <2>1 DEF Matching
  <2> QED BY <2>1, <2>2, SameMatching
<1> QED BY <1>3, <1>4 DEF KeptBut, new

(* A map of values is compared exactly. *)
Kept(ext, new, key) == \A k : k # key =>
  /\ k \in DOMAIN new <=> k \in DOMAIN ext
  /\ k \in DOMAIN ext => new[k] = ext[k]

LEMMA PutKeeps ==
  ASSUME NEW ext, NEW key, NEW value
  PROVE  Kept(ext, Put(ext, key, value), key)
BY DEF Put, Kept

(* So it stays a map. *)
LEMMA MapKept ==
  ASSUME NEW D, NEW R, NEW ext \in Maps(D, R), NEW key \in D, NEW value \in R
  PROVE  Put(ext, key, value) \in Maps(D, R)
<1>1. PICK S \in SUBSET D : ext \in [S -> R]
  BY DEF Maps
<1>2. Put(ext, key, value) \in [S \cup {key} -> R]
  BY <1>1 DEF Put
<1> QED BY <1>1, <1>2 DEF Maps

LEMMA MapNamed ==
  ASSUME NEW D, NEW R, NEW ext \in Maps(D, R), NEW name \in D, NEW value \in R
  PROVE  Named(ext, name, value) \in Maps(D, R)
<1>1. PICK S \in SUBSET D : ext \in [S -> R]
  BY DEF Maps
<1>2. Extended(ext, name) => Place(ext, name) \in D
  BY <1>1, PlaceMatches DEF Matching
<1> QED BY <1>2, MapKept DEF Named

LEMMA MapErased ==
  ASSUME NEW D, NEW R, NEW ext \in Maps(D, R), NEW name
  PROVE  Erased(ext, name) \in Maps(D, R)
<1>1. PICK S \in SUBSET D : ext \in [S -> R]
  BY DEF Maps
<1>2. Erased(ext, name) \in [S \ Matching(ext, name) -> R]
  BY <1>1 DEF Erased, Restrict
<1> QED BY <1>1, <1>2 DEF Maps

-----------------------------------------------------------------------------
(* Types. *)

LEMMA NamesInitTyped == NamesInit => NamesTypeOK
<1>1. ASSUME NEW D, NEW R PROVE NoEntry \in Maps(D, R)
  <2>1. NoEntry \in [{} -> R]
    BY DEF NoEntry
  <2> QED BY <2>1 DEF Maps
<1> QED BY <1>1 DEF NamesInit, NamesTypeOK

LEMMA NamesNextTyped ==
  ASSUME NamesTypeOK, [NamesNext]_namesVars
  PROVE  NamesTypeOK'
<1>1. CASE UNCHANGED namesVars
  BY <1>1 DEF namesVars, modifierVars, triggerModeVars, NamesTypeOK
<1>2. CASE NamesNext
  <2>1. PICK name \in Edited \cup {Null} :
          \/ removeModifierName(name) \/ removeTriggerModeName(name)
          \/ \E value \in Flags : setModifierName(name, value) \/ setModifierValueName(value, name)
          \/ \E value \in Modes : setTriggerModeName(name, value)
                                  \/ setTriggerModeValueName(value, name)
    BY <1>2 DEF NamesNext
  <2>2. name \in Edited
    BY <2>1 DEF removeModifierName, removeTriggerModeName, setModifierName, setModifierValueName,
                setTriggerModeName, setTriggerModeValueName
  <2>3. CASE removeModifierName(name)
    BY <2>3, MapErased DEF NamesTypeOK, removeModifierName, triggerModeVars
  <2>4. CASE removeTriggerModeName(name)
    BY <2>4, MapErased DEF NamesTypeOK, removeTriggerModeName, modifierVars
  <2>5. ASSUME NEW value \in Flags, setModifierName(name, value)
        PROVE  NamesTypeOK'
    BY <2>2, <2>5, MapNamed DEF NamesTypeOK, setModifierName, triggerModeVars
  <2>6. ASSUME NEW value \in Flags, setModifierValueName(value, name)
        PROVE  NamesTypeOK'
    BY <2>2, <2>6, MapKept DEF NamesTypeOK, setModifierValueName, triggerModeVars
  <2>7. ASSUME NEW value \in Modes, setTriggerModeName(name, value)
        PROVE  NamesTypeOK'
    BY <2>2, <2>7, MapNamed DEF NamesTypeOK, setTriggerModeName, modifierVars
  <2>8. ASSUME NEW value \in Modes, setTriggerModeValueName(value, name)
        PROVE  NamesTypeOK'
    BY <2>2, <2>8, MapKept DEF NamesTypeOK, setTriggerModeValueName, modifierVars
  <2> QED BY <2>1, <2>3, <2>4, <2>5, <2>6, <2>7, <2>8
<1> QED BY <1>1, <1>2

(* The maps have the keys and values the program has given. *)
THEOREM NamesTypeCorrect == NamesSpec => []NamesTypeOK
<1>1. NamesInit => NamesTypeOK
  BY NamesInitTyped
<1>2. NamesTypeOK /\ [NamesNext]_namesVars => NamesTypeOK'
  BY NamesNextTyped
<1> QED BY <1>1, <1>2, PTL DEF NamesSpec

-----------------------------------------------------------------------------
(* What an edit changes. *)

LEMMA ModifierNameEdited ==
  ASSUME NEW name, KeptBut(modifierNameExt, modifierNameExt', name),
         NEW k \in Names, modifiers(k)' # modifiers(k)
  PROVE  Fold[k] = Fold[name]
BY DEF KeptBut, ReadsSame, modifiers, ci_equal

LEMMA ModeNameEdited ==
  ASSUME NEW name, KeptBut(triggerModeNameExt, triggerModeNameExt', name),
         NEW k \in Names, triggerMode(k)' # triggerMode(k)
  PROVE  Fold[k] = Fold[name]
BY DEF KeptBut, ReadsSame, triggerMode, ci_equal

LEMMA FlagsNameEdited ==
  ASSUME NEW key, Kept(modifierValueExt, modifierValueExt', key),
         NEW v, modifiersName(v)' # modifiersName(v)
  PROVE  v = key
BY DEF Kept, modifiersName

LEMMA ModeValueEdited ==
  ASSUME NEW key, Kept(triggerModeValueExt, triggerModeValueExt', key),
         NEW v, triggerModeName(v)' # triggerModeName(v)
  PROVE  v = key
BY DEF Kept, triggerModeName

LEMMA Unedited ==
  /\ modifierNameExt' = modifierNameExt => \A k : modifiers(k)' = modifiers(k)
  /\ triggerModeNameExt' = triggerModeNameExt => \A k : triggerMode(k)' = triggerMode(k)
  /\ modifierValueExt' = modifierValueExt => \A v : modifiersName(v)' = modifiersName(v)
  /\ triggerModeValueExt' = triggerModeValueExt => \A v : triggerModeName(v)' = triggerModeName(v)
BY DEF modifiers, triggerMode, modifiersName, triggerModeName

AtMostOne(S) == \E x : S \subseteq {x}

(* The maps have names for keys. *)
LEMMA KeysAreNames ==
  ASSUME NamesTypeOK
  PROVE  DOMAIN modifierNameExt \subseteq Names /\ DOMAIN triggerModeNameExt \subseteq Names
BY NamesAssumption DEF NamesTypeOK, Maps

LEMMA EditedIsName ==
  ASSUME NEW name \in Edited \cup {Null}, name # Null
  PROVE  name \in Names
BY NamesAssumption

LEMMA EditChangesOne ==
  ASSUME NamesTypeOK, [NamesNext]_namesVars
  PROVE  AtMostOne(Changed)
<1>1. CASE UNCHANGED namesVars
  <2>1. Changed = {}
    BY <1>1, Unedited DEF Changed, namesVars, modifierVars, triggerModeVars
  <2> QED BY <2>1 DEF AtMostOne
<1>2. ASSUME NEW name \in Edited \cup {Null},
             removeModifierName(name) \/ \E value \in Flags : setModifierName(name, value)
      PROVE  AtMostOne(Changed)
  <2>1. /\ KeptBut(modifierNameExt, modifierNameExt', name)
        /\ UNCHANGED <<modifierValueExt, triggerModeNameExt, triggerModeValueExt>>
    <3>1. CASE removeModifierName(name)
      BY <3>1, EditedIsName, KeysAreNames, ErasedEdits DEF removeModifierName, triggerModeVars
    <3>2. ASSUME NEW value, setModifierName(name, value)
          PROVE  /\ KeptBut(modifierNameExt, modifierNameExt', name)
                 /\ UNCHANGED <<modifierValueExt, triggerModeNameExt, triggerModeValueExt>>
      BY <3>2, EditedIsName, KeysAreNames, NamedEdits DEF setModifierName, triggerModeVars
    <3> QED BY <1>2, <3>1, <3>2
  <2>2. Changed \subseteq {<<"modifier", Fold[name]>>}
    BY <2>1, Unedited, ModifierNameEdited DEF Changed
  <2> QED BY <2>2 DEF AtMostOne
<1>3. ASSUME NEW name \in Edited \cup {Null},
             removeTriggerModeName(name) \/ \E value \in Modes : setTriggerModeName(name, value)
      PROVE  AtMostOne(Changed)
  <2>1. /\ KeptBut(triggerModeNameExt, triggerModeNameExt', name)
        /\ UNCHANGED <<triggerModeValueExt, modifierNameExt, modifierValueExt>>
    <3>1. CASE removeTriggerModeName(name)
      BY <3>1, EditedIsName, KeysAreNames, ErasedEdits DEF removeTriggerModeName, modifierVars
    <3>2. ASSUME NEW value, setTriggerModeName(name, value)
          PROVE  /\ KeptBut(triggerModeNameExt, triggerModeNameExt', name)
                 /\ UNCHANGED <<triggerModeValueExt, modifierNameExt, modifierValueExt>>
      BY <3>2, EditedIsName, KeysAreNames, NamedEdits DEF setTriggerModeName, modifierVars
    <3> QED BY <1>3, <3>1, <3>2
  <2>2. Changed \subseteq {<<"mode", Fold[name]>>}
    BY <2>1, Unedited, ModeNameEdited DEF Changed
  <2> QED BY <2>2 DEF AtMostOne
<1>4. ASSUME NEW name, NEW value \in Flags, setModifierValueName(value, name)
      PROVE  AtMostOne(Changed)
  <2>1. /\ Kept(modifierValueExt, modifierValueExt', value)
        /\ UNCHANGED <<modifierNameExt, triggerModeNameExt, triggerModeValueExt>>
    BY <1>4, PutKeeps DEF setModifierValueName, triggerModeVars
  <2>2. Changed \subseteq {<<"flags", value>>}
    BY <2>1, Unedited, FlagsNameEdited DEF Changed
  <2> QED BY <2>2 DEF AtMostOne
<1>5. ASSUME NEW name, NEW value \in Modes, setTriggerModeValueName(value, name)
      PROVE  AtMostOne(Changed)
  <2>1. /\ Kept(triggerModeValueExt, triggerModeValueExt', value)
        /\ UNCHANGED <<triggerModeNameExt, modifierNameExt, modifierValueExt>>
    BY <1>5, PutKeeps DEF setTriggerModeValueName, modifierVars
  <2>2. Changed \subseteq {<<"value", value>>}
    BY <2>1, Unedited, ModeValueEdited DEF Changed
  <2> QED BY <2>2 DEF AtMostOne
<1> QED BY <1>1, <1>2, <1>3, <1>4, <1>5 DEF NamesNext

(* An edit changes one meaning. *)
THEOREM EditsStayApart == NamesSpec => EditsApart
<1>1. NamesTypeOK /\ [NamesNext]_namesVars => [Cardinality(Changed) <= 1]_namesVars
  <2>1. ASSUME NamesTypeOK, [NamesNext]_namesVars PROVE Cardinality(Changed) <= 1
    <3>1. PICK x : Changed \subseteq {x}
      BY <2>1, EditChangesOne DEF AtMostOne
    <3>2. IsFiniteSet({x}) /\ Cardinality({x}) = 1
      BY FS_Singleton
    <3> QED BY <3>1, <3>2, FS_Subset
  <2> QED BY <2>1
<1> QED BY <1>1, NamesTypeCorrect, PTL DEF NamesSpec, EditsApart

-----------------------------------------------------------------------------
(* How far an edit reaches. *)

Reaches(name) == LET spelt == {n \in Names : ci_equal(n, name)} IN
  /\ \A v \in Flags : setModifierName(name, v) => \A n \in spelt : modifiers(n)' = v
  /\ \A v \in Modes : setTriggerModeName(name, v) => \A n \in spelt : triggerMode(n)' = v
  /\ removeModifierName(name) => \A n \in spelt : modifiers(n)' = BuiltInModifiers(n)
  /\ removeTriggerModeName(name) =>
       \A n \in spelt : triggerMode(n)' = TriggerModeNamed[n]

LEMMA EditReaches ==
  ASSUME NamesTypeOK, NEW name \in Edited
  PROVE  Reaches(name)
<1>1. /\ name \in Names /\ \A n \in Names : n # Null
      /\ DOMAIN modifierNameExt \subseteq Names /\ DOMAIN triggerModeNameExt \subseteq Names
  BY NamesAssumption, KeysAreNames
<1>2. ASSUME NEW v \in Flags, setModifierName(name, v), NEW n \in Names, ci_equal(n, name)
      PROVE  modifiers(n)' = v
  BY <1>1, <1>2, NamedEdits DEF setModifierName, modifiers
<1>3. ASSUME NEW v \in Modes, setTriggerModeName(name, v), NEW n \in Names, ci_equal(n, name)
      PROVE  triggerMode(n)' = v
  BY <1>1, <1>3, NamedEdits DEF setTriggerModeName, triggerMode
<1>4. ASSUME removeModifierName(name), NEW n \in Names, ci_equal(n, name)
      PROVE  modifiers(n)' = BuiltInModifiers(n)
  BY <1>1, <1>4, ErasedEdits DEF removeModifierName, modifiers
<1>5. ASSUME removeTriggerModeName(name), NEW n \in Names, ci_equal(n, name)
      PROVE  triggerMode(n)' = TriggerModeNamed[n]
  BY <1>1, <1>5, ErasedEdits DEF removeTriggerModeName, triggerMode
<1> QED BY <1>2, <1>3, <1>4, <1>5 DEF Reaches

(* An edit under one spelling of a name is an edit of them all. *)
THEOREM EditsReachSpellings == NamesSpec => EditsReach
<1>1. NamesTypeOK /\ [NamesNext]_namesVars => [\A name \in Edited : Reaches(name)]_namesVars
  BY EditReaches
<1> QED BY <1>1, NamesTypeCorrect, PTL DEF NamesSpec, EditsReach, Reaches

-----------------------------------------------------------------------------
(* The name of a value, looked up, means that value.                       *)

(* No two names of the tables differ only in case. *)
CasesApart == \A m, n \in BuiltIn : ci_equal(m, n) => m = n

(* A table has each name once, among the built-in ones. *)
NamesApart(table) ==
  /\ NamesIn(table) \subseteq BuiltIn /\ DOMAIN table \subseteq Int
  /\ \A i, j \in DOMAIN table : table[i][1] = table[j][1] => i = j

(* The cases of a switch statement are rows of a table. *)
RowsOf(cases, table) == \A i \in DOMAIN cases :
  \E j \in DOMAIN table : cases[i] = table[j]

(* Two tables have names with a space, which SMT cannot spell: here they are *)
(* some names, other than the rest.                                         *)
LEMMA InterruptTable ==
  \E one, all :
    /\ interrupt_names = << <<"Continue", 0>>, <<"Pause", 1>>, <<one, 2>>, <<all, 3>>, <<"Disable", 4>> >>
    /\ one # all /\ {one, all} \cap {"Continue", "Pause", "Disable"} = {}
<1>1. /\ InterruptValue.CONTINUE = 0 /\ InterruptValue.PAUSE = 1 /\ InterruptValue.INTERRUPT = 2
      /\ InterruptValue.INTERRUPT_ALL = 3 /\ InterruptValue.DISABLE = 4
  BY DEF InterruptValue
<1> WITNESS "Interrupt One", "Interrupt All"
<1>2. {"Interrupt One", "Interrupt All"} \cap {"Continue", "Pause", "Disable"} = {}
  BY Zenon
<1>3. "Interrupt One" # "Interrupt All"
  BY Zenon
<1> QED BY <1>1, <1>2, <1>3, Zenon DEF interrupt_names

LEMMA AliasTable ==
  \E altGr :
    /\ altGr # "Any"
    /\ modifier_aliases = LET V == mcr_ModFlags IN
         << <<"Option", V.ALT>>, <<altGr, V.ALTGR>>, <<"alt_gr", V.ALTGR>>,
            <<"Command", V.CMD>>, <<"Control", V.CTRL>>, <<"Win", V.OS>>, <<"Mac", V.OS>>,
            <<"Linux", V.OS>>, <<"Unix", V.OS>>, <<"Windows", V.OS>>, <<"Window", V.OS>>,
            <<"Apple", V.OS>>, <<"Macintosh", V.OS>> >>
<1> WITNESS "Alt Gr"
<1> QED BY Zenon DEF modifier_aliases

LEMMA TablesApart ==
  /\ NamesApart(apply_names) /\ NamesApart(dimension_names) /\ NamesApart(interrupt_names)
  /\ NamesApart(modifier_names) /\ NamesApart(trigger_mode_names)
<1>1. \A table \in Tables : NamesIn(table) \subseteq BuiltIn
  BY DEF BuiltIn
<1>2. NamesApart(apply_names)
  BY <1>1 DEF NamesApart, Tables, apply_names, mcr_ApplyValue
<1>3. NamesApart(dimension_names)
  BY <1>1 DEF NamesApart, Tables, dimension_names, mcr_Dimension
<1>4. NamesApart(interrupt_names)
  <2>1. NamesIn(interrupt_names) \subseteq BuiltIn
    BY <1>1 DEF Tables
  <2>2. PICK one, all :
          /\ interrupt_names =
               << <<"Continue", 0>>, <<"Pause", 1>>, <<one, 2>>, <<all, 3>>, <<"Disable", 4>> >>
          /\ one # all /\ {one, all} \cap {"Continue", "Pause", "Disable"} = {}
    BY InterruptTable
  <2>3. one \notin {"Continue", "Pause", "Disable"} /\ all \notin {"Continue", "Pause", "Disable"}
    BY <2>2
  <2>4. \A i, j \in 1 .. 5 : interrupt_names[i][1] = interrupt_names[j][1] => i = j
    BY <2>2, <2>3
  <2>5. DOMAIN interrupt_names = 1 .. 5
    BY <2>2
  <2> QED BY <2>1, <2>4, <2>5 DEF NamesApart
<1>5. NamesApart(modifier_names)
  <2>1. NamesIn(modifier_names) \subseteq BuiltIn
    BY <1>1 DEF Tables
  <2>2. /\ DOMAIN modifier_names \subseteq Int
        /\ \A i, j \in DOMAIN modifier_names : modifier_names[i][1] = modifier_names[j][1] => i = j
    BY DEF modifier_names, mcr_ModFlags
  <2> QED BY <2>1, <2>2 DEF NamesApart
<1>6. NamesApart(trigger_mode_names)
  BY <1>1 DEF NamesApart, Tables, trigger_mode_names, mcr_TriggerMode
<1> QED BY <1>2, <1>3, <1>4, <1>5, <1>6

(* What a table reads is the row of the name, *)
LEMMA RowRead ==
  ASSUME CasesApart, NEW table, NamesApart(table), NEW i \in DOMAIN table, NEW notFound
  PROVE  nameValue(table, notFound)[table[i][1]] = table[i][2]
<1> DEFINE found(m) == {j \in DOMAIN table : ci_equal(table[j][1], m)}
<1>1. table[i][1] \in BuiltIn /\ table[i][1] \in Names /\ i \in Int
  BY NamesAssumption DEF NamesApart, NamesIn
<1>2. found(table[i][1]) = {i}
  BY DEF CasesApart, NamesApart, NamesIn, ci_equal
<1>3. nameValue(table, notFound)[table[i][1]] =
        IF found(table[i][1]) = {} THEN notFound
        ELSE table[CHOOSE j \in found(table[i][1]) : \A k \in found(table[i][1]) : j <= k][2]
  BY <1>1 DEF nameValue
<1> HIDE DEF found
<1>4. (CHOOSE j \in {i} : \A k \in {i} : j <= k) = i
  BY <1>1
<1> QED BY <1>2, <1>3, <1>4

(* and a name that is in no row is not found. *)
LEMMA NoRowRead ==
  ASSUME NEW table, NEW n \in Names, NEW notFound,
         \A j \in DOMAIN table : ~ci_equal(table[j][1], n)
  PROVE  nameValue(table, notFound)[n] = notFound
BY DEF nameValue

(* The switch statement gives the name of a case that has the value. *)
LEMMA CaseFound ==
  ASSUME NEW cases, NEW value
  PROVE  \/ /\ caseName(cases, value) = Null
            /\ \A i \in DOMAIN cases : cases[i][2] # value
         \/ \E i \in DOMAIN cases : cases[i][2] = value /\ caseName(cases, value) = cases[i][1]
<1> DEFINE found == {i \in DOMAIN cases : cases[i][2] = value}
<1>1. CASE found = {}
  BY <1>1 DEF caseName
<1>2. CASE found # {}
  <2>1. (CHOOSE i \in found : TRUE) \in found
    BY <1>2
  <2>2. caseName(cases, value) = cases[CHOOSE i \in found : TRUE][1]
    BY <1>2 DEF caseName
  <2> QED BY <2>1, <2>2
<1> QED BY <1>1, <1>2

(* So the table reads back what the switch statement names. *)
LEMMA CaseReadsBack ==
  ASSUME CasesApart, NEW table, NamesApart(table), NEW cases, RowsOf(cases, table),
         NEW value, NEW notFound
  PROVE  LET n == caseName(cases, value) IN
         \/ n = Null /\ \A i \in DOMAIN cases : cases[i][2] # value
         \/ /\ n \in BuiltIn /\ n \in Names /\ n # Null
            /\ nameValue(table, notFound)[n] = value
            /\ \E i \in DOMAIN cases : cases[i][1] = n /\ cases[i][2] = value
<1> DEFINE n == caseName(cases, value)
<1>1. SUFFICES ASSUME NEW i \in DOMAIN cases, cases[i][2] = value, n = cases[i][1]
               PROVE  /\ n \in BuiltIn /\ n \in Names /\ n # Null
                      /\ nameValue(table, notFound)[n] = value
  BY CaseFound
<1>2. PICK j \in DOMAIN table : cases[i] = table[j]
  BY DEF RowsOf
<1>3. n = table[j][1] /\ value = table[j][2]
  BY <1>1, <1>2
<1>4. n \in BuiltIn
  BY <1>3 DEF NamesApart, NamesIn
<1> QED BY <1>3, <1>4, RowRead, NamesAssumption

(* The built-in names without maps. *)
LEMMA PlainReadBack ==
  ASSUME CasesApart
  PROVE  /\ \A v \in Range(mcr_ApplyValue) : applyValue(applyValueName(v)) = v
         /\ \A v \in Range(mcr_Dimension) : dimension(dimensionName(v)) = v
         /\ \A v \in Range(InterruptValue) : interrupt(interruptName(v)) = v
<1>1. RowsOf(apply_names, apply_names) /\ RowsOf(dimension_names, dimension_names)
      /\ RowsOf(interrupt_names, interrupt_names)
  BY DEF RowsOf
<1>2. ASSUME NEW v \in Range(mcr_ApplyValue) PROVE applyValue(applyValueName(v)) = v
  <2>1. \E i \in DOMAIN apply_names : apply_names[i][2] = v
    BY <1>2 DEF Range, apply_names, mcr_ApplyValue
  <2>2. applyValueName(v) = caseName(apply_names, v)
    BY DEF applyValueName, apply_names
  <2> QED BY <1>1, <2>1, <2>2, TablesApart, CaseReadsBack DEF applyValue, ApplyNamed
<1>3. ASSUME NEW v \in Range(mcr_Dimension) PROVE dimension(dimensionName(v)) = v
  <2>1. \E i \in DOMAIN dimension_names : dimension_names[i][2] = v
    BY <1>3 DEF Range, dimension_names, mcr_Dimension
  <2>2. dimensionName(v) = caseName(dimension_names, v)
    BY DEF dimensionName, dimension_names
  <2> QED BY <1>1, <2>1, <2>2, TablesApart, CaseReadsBack DEF dimension, DimensionNamed
<1>4. ASSUME NEW v \in Range(InterruptValue) PROVE interrupt(interruptName(v)) = v
  <2>1. \E i \in DOMAIN interrupt_names : interrupt_names[i][2] = v
    BY <1>4, InterruptTable DEF Range, InterruptValue
  <2>2. interruptName(v) = caseName(interrupt_names, v)
    BY DEF interruptName, interrupt_names
  <2> QED BY <1>1, <2>1, <2>2, TablesApart, CaseReadsBack DEF interrupt, InterruptNamed
<1> QED BY <1>2, <1>3, <1>4

LEMMA ModifierCasesAreRows == RowsOf(modifierCases, modifier_names)
<1>1. modifierCases = modifier_names
  BY DEF modifierCases, modifier_names
<1> QED BY <1>1 DEF RowsOf

LEMMA ModeCasesAreRows ==
  /\ RowsOf(triggerModeCases, trigger_mode_names)
  /\ \A i \in DOMAIN trigger_mode_names : \E j \in DOMAIN triggerModeCases :
       trigger_mode_names[i] = triggerModeCases[j]
BY DEF RowsOf, triggerModeCases, trigger_mode_names

(* No alias means every flag under another name: "Any" is no alias. *)
LEMMA AnyIsNoAlias ==
  ASSUME CasesApart
  PROVE  \A i \in DOMAIN modifier_names : modifier_names[i][2] = AnyFlags =>
           AliasNamed[modifier_names[i][1]] = AnyFlags
<1>1. ASSUME NEW i \in DOMAIN modifier_names, modifier_names[i][2] = AnyFlags
      PROVE  modifier_names[i][1] = "Any"
  <2>1. /\ 31 \in AnyFlags
        /\ \A b \in 0 .. 17 : 31 \notin {b}
    BY DEF AnyFlags, mcr_ModFlags
  <2> QED BY <1>1, <2>1 DEF modifier_names, mcr_ModFlags
<1>2. "Any" \in BuiltIn /\ "Any" \in Names
  <2>1. "Any" \in NamesIn(modifier_names)
    BY DEF NamesIn, modifier_names
  <2> QED BY <2>1, NamesAssumption DEF BuiltIn, Tables
<1>3. ASSUME NEW j \in DOMAIN modifier_aliases PROVE ~ci_equal(modifier_aliases[j][1], "Any")
  <2>1. modifier_aliases[j][1] # "Any"
    BY AliasTable
  <2>2. modifier_aliases[j][1] \in BuiltIn
    BY DEF BuiltIn, Tables, NamesIn
  <2> QED BY <1>2, <2>1, <2>2 DEF CasesApart
<1> QED BY <1>1, <1>2, <1>3, NoRowRead DEF AliasNamed

(* The maps come first in both directions. *)
LEMMA ModifierRead ==
  ASSUME CasesApart, NEW v
  PROVE  ModifierReadsBack(v)
<1> DEFINE n == modifiersName(v)
<1>1. SUFFICES ASSUME n # Null, Together(v, n, modifierNameExt, modifierValueExt)
               PROVE  modifiers(n) = v
  BY DEF ModifierReadsBack
<1>2. CASE Extended(modifierNameExt, n)
  BY <1>1, <1>2 DEF Together, modifiers
<1>3. CASE ~Extended(modifierNameExt, n)
  <2>1. n = caseName(modifierCases, v)
    BY <1>1, <1>3 DEF Together, modifiersName
  <2>2. /\ ModifierNamed[n] = v
        /\ \E i \in DOMAIN modifierCases : modifierCases[i][1] = n /\ modifierCases[i][2] = v
    BY <1>1, <2>1, TablesApart, ModifierCasesAreRows, CaseReadsBack DEF ModifierNamed
  <2>3. v = AnyFlags => AliasNamed[n] = v
    BY <2>2, AnyIsNoAlias, ModifierCasesAreRows DEF RowsOf
  <2>4. BuiltInModifiers(n) = v
    BY <2>2, <2>3 DEF BuiltInModifiers
  <2> QED BY <1>1, <1>3, <2>4 DEF modifiers
<1> QED BY <1>2, <1>3

LEMMA ModeRead ==
  ASSUME CasesApart, NEW v
  PROVE  TriggerModeReadsBack(v)
<1> DEFINE n == triggerModeName(v)
<1>1. SUFFICES ASSUME n # Null, Together(v, n, triggerModeNameExt, triggerModeValueExt)
               PROVE  triggerMode(n) = v
  BY DEF TriggerModeReadsBack
<1>2. CASE Extended(triggerModeNameExt, n)
  BY <1>1, <1>2 DEF Together, triggerMode
<1>3. CASE ~Extended(triggerModeNameExt, n)
  <2>1. n = caseName(triggerModeCases, v)
    BY <1>1, <1>3 DEF Together, triggerModeName
  <2>2. TriggerModeNamed[n] = v
    BY <1>1, <2>1, TablesApart, ModeCasesAreRows, CaseReadsBack DEF TriggerModeNamed
  <2> QED BY <1>1, <1>3, <2>2 DEF triggerMode
<1> QED BY <1>2, <1>3

(* Where the comparison of names tells the built-in ones apart, the name of *)
(* a value means that value, whatever the program has edited, unless it has *)
(* parted the two itself.                                                   *)
THEOREM ValuesReadBack == CasesApart => (NamesSpec => []ReadBack)
<1> SUFFICES ASSUME CasesApart PROVE NamesSpec => []ReadBack
  OBVIOUS
<1>1. ReadBack
  BY PlainReadBack, ModifierRead, ModeRead DEF ReadBack
<1> QED BY <1>1, PTL
=============================================================================
