--------------------------- MODULE RootModelProofs ----------------------------
(***************************************************************************)
(* Key routing and the rule wizard for any keys, tabs, metrics and         *)
(* operators.                                                              *)
(*                                                                         *)
(* WizardWhole is inductive with the types.  That the drawer stays open    *)
(* under the wizard rests on the order of Update's blocks: the two that    *)
(* close it, the modals' and the shortcuts', come after the wizard's.      *)
(* That a rule stays valid rests on what the wizard's keys change at its   *)
(* last step: nothing that the rule is made of.                            *)
(***************************************************************************)
EXTENDS RootModel, TLAPS

RootInv == TypeOK /\ WizardWhole

Digits == DOMAIN TabKey \cup {"."}
-----------------------------------------------------------------------------
(* The parts a key can change.                                             *)

\* The metric, the operator and the value that make up a rule.
ruleVars == <<ruleMetricIdx, ruleOpIdx, ruleValInput>>

LEMMA TabKeyFacts ==
  /\ "Dashboard" \in Tabs /\ "Firewall" \in Tabs /\ "Terminal" \in Tabs
  /\ \A k \in DOMAIN TabKey : TabKey[k] \in Tabs
  /\ DOMAIN DigitValue = DOMAIN TabKey
<1>1. TabKey["1"] = "Dashboard" /\ TabKey["7"] = "Firewall" /\ TabKey["6"] = "Terminal"
  BY DEF TabKey
<1>2. {"1", "7", "6"} \subseteq DOMAIN TabKey
  BY DEF TabKey
<1> QED BY <1>1, <1>2 DEF Tabs, DigitValue

\* The wizard's lists are not empty, and its operators are the known ones.
LEMMA ListFacts ==
  /\ 1 \in DOMAIN Metrics /\ 1 \in DOMAIN Ops
  /\ \A i \in DOMAIN Ops : Ops[i] \in {">", ">=", "<", "=="}
  /\ DOMAIN Metrics \subseteq Nat /\ DOMAIN Ops \subseteq Nat
BY RootAssumption

\* What a tab makes of a key are tabs that type and a terminal with focus or not.
LEMMA TabUpdateTyped ==
  ASSUME TypeOK, NEW t, NEW k, TabUpdate(t, k)
  PROVE  typing' \subseteq TypingTabs /\ termFocused' \in BOOLEAN /\ jump' \in BOOLEAN
<1>1. typing \subseteq TypingTabs /\ termFocused \in BOOLEAN /\ jump \in BOOLEAN
  BY DEF TypeOK
<1>2. typing' \subseteq TypingTabs /\ jump' \in BOOLEAN
  BY <1>1 DEF TabUpdate, tabVars
<1>3. termFocused' \in BOOLEAN
  BY <1>1 DEF TabUpdate, tabVars
<1> QED BY <1>2, <1>3

\* The steps that leave the wizard and the drawer under it as they are.
LEMMA AsideKeeps ==
  ASSUME RootInv, TypeOK', UNCHANGED <<wizardVars, alertModalOpen>>
  PROVE  RootInv'
BY DEF RootInv, WizardWhole, wizardVars, NewRule, Valid

LEMMA ToTabKeeps ==
  ASSUME RootInv, NEW k, ToTab(k) PROVE RootInv'
<1>1. /\ typing' \subseteq TypingTabs /\ termFocused' \in BOOLEAN /\ jump' \in BOOLEAN
      /\ UNCHANGED <<activeTab, modalVars, wizardVars, quit>>
  BY TabUpdateTyped DEF RootInv, ToTab
<1>2. TypeOK'
  BY <1>1 DEF RootInv, TypeOK, modalVars, wizardVars
<1> QED BY <1>1, <1>2, AsideKeeps DEF modalVars

LEMMA QuittingKeeps == RootInv /\ Quitting => RootInv'
<1> SUFFICES ASSUME RootInv, Quitting PROVE RootInv'
  OBVIOUS
<1>1. TypeOK'
  BY DEF RootInv, TypeOK, Quitting, tabVars, modalVars, wizardVars
<1> QED BY <1>1, AsideKeeps DEF Quitting, modalVars
-----------------------------------------------------------------------------
(* The wizard.                                                             *)

\* The cursor keys stay within the lists, and from the value on do nothing.
LEMMA MoveFacts ==
  ASSUME RootInv, NEW step, Move(step)
  PROVE  /\ ruleMetricIdx' \in DOMAIN Metrics /\ ruleOpIdx' \in DOMAIN Ops
         /\ ruleWizardStep = 3 => UNCHANGED <<ruleMetricIdx, ruleOpIdx>>
BY DEF RootInv, TypeOK, Move

\* A rule made of a metric of the list and a value in its range is valid.
LEMMA CheckedIsValid ==
  ASSUME RootInv, Parses(ruleValInput),
         Within(ruleValInput, Metrics[ruleMetricIdx].min, Metrics[ruleMetricIdx].max)
  PROVE  Valid(NewRule)
<1>1. /\ NewRule.metric = Metrics[ruleMetricIdx].key /\ NewRule.op = Ops[ruleOpIdx]
      /\ NewRule.value = ruleValInput
  BY DEF NewRule
<1>2. ruleMetricIdx \in DOMAIN Metrics /\ Ops[ruleOpIdx] \in {">", ">=", "<", "=="}
  BY ListFacts DEF RootInv, TypeOK
<1> QED BY <1>1, <1>2 DEF Valid

LEMMA NewRuleTyped == TypeOK => NewRule \in Rule
BY DEF TypeOK, NewRule, Rule

LEMMA WizardEnterKeeps ==
  ASSUME RootInv, ruleWizardOpen, WizardEnter,
         UNCHANGED <<ruleVars, activeTab, tabVars, modalVars, quit>>
  PROVE  RootInv'
<1>1. TypeOK /\ alertModalOpen /\ (ruleWizardStep = 3 => Valid(NewRule))
  BY DEF RootInv, WizardWhole
<1>2. UNCHANGED <<NewRule, alertModalOpen>>
  BY DEF ruleVars, modalVars, NewRule
<1>3. CASE ruleWizardStep < 2
  <2>1. /\ ruleWizardStep' = ruleWizardStep + 1 /\ ruleWizardStep' \in 0..2
        /\ UNCHANGED <<ruleWizardOpen, customRules>>
    <3>1. ruleWizardStep \in 0..3
      BY <1>1 DEF TypeOK
    <3>2. ruleWizardStep \in 0..1
      BY <1>3, <3>1
    <3>3. ruleWizardStep' = ruleWizardStep + 1 /\ UNCHANGED <<ruleWizardOpen, customRules>>
      <4>1. ruleWizardStep # 2 /\ ruleWizardStep # 3
        BY <3>2
      <4> QED BY <4>1, Zenon DEF WizardEnter
    <3> QED BY <3>2, <3>3
  <2>2. TypeOK'
    BY <1>1, <2>1 DEF TypeOK, ruleVars, tabVars, modalVars
  <2> QED BY <1>1, <1>2, <2>1, <2>2 DEF RootInv, WizardWhole
<1>4. CASE ruleWizardStep = 2
  <2>1. /\ ruleWizardStep' \in {2, 3}
        /\ ruleWizardStep' = 3 =>
             /\ Parses(ruleValInput)
             /\ Within(ruleValInput, Metrics[ruleMetricIdx].min, Metrics[ruleMetricIdx].max)
        /\ UNCHANGED <<ruleWizardOpen, customRules>>
    BY <1>4 DEF WizardEnter
  <2>2. TypeOK'
    BY <1>1, <2>1 DEF TypeOK, ruleVars, tabVars, modalVars
  <2>3. ruleWizardStep' = 3 => Valid(NewRule)
    BY <2>1, CheckedIsValid
  <2>4. Valid(NewRule)' = Valid(NewRule)
    BY <1>2 DEF Valid
  <2> QED BY <1>1, <1>2, <2>2, <2>3, <2>4 DEF RootInv, WizardWhole
<1>5. CASE ruleWizardStep = 3
  <2>1. /\ customRules' \in {customRules, Append(customRules, NewRule)}
        /\ ruleWizardOpen' \in {ruleWizardOpen, FALSE} /\ ruleWizardStep' = ruleWizardStep
    <3>1. /\ IF Valid(NewRule)
               THEN /\ customRules' = Append(customRules, NewRule)
                    /\ ruleWizardOpen' = FALSE
               ELSE UNCHANGED <<customRules, ruleWizardOpen>>
          /\ UNCHANGED ruleWizardStep
      <4>1. ~(ruleWizardStep < 2) /\ ruleWizardStep # 2
        BY <1>5
      <4> QED BY <4>1, Zenon DEF WizardEnter
    <3> QED BY <3>1, Zenon
  <2>2. customRules' \in Seq(Rule)
    <3>1. NewRule \in Rule /\ customRules \in Seq(Rule)
      BY <1>1, NewRuleTyped DEF TypeOK
    <3> HIDE DEF Rule, NewRule
    <3> QED BY <2>1, <3>1
  <2>3. TypeOK'
    BY <1>1, <2>1, <2>2 DEF TypeOK, ruleVars, tabVars, modalVars
  <2>4. Valid(NewRule)' = Valid(NewRule)
    BY <1>2 DEF Valid
  <2> QED BY <1>1, <1>2, <1>5, <2>3, <2>4 DEF RootInv, WizardWhole
<1> QED BY <1>1, <1>3, <1>4, <1>5 DEF TypeOK

LEMMA WizardKeyKeeps ==
  ASSUME RootInv, ruleWizardOpen, NEW k, WizardKey(k) PROVE RootInv'
<1>1. /\ TypeOK /\ alertModalOpen /\ (ruleWizardStep = 3 => Valid(NewRule))
      /\ UNCHANGED <<activeTab, tabVars, modalVars, quit>>
  BY DEF RootInv, WizardWhole, WizardKey
<1>2. CASE k = "esc"
  <2>1. ruleWizardOpen' = FALSE
        /\ UNCHANGED <<ruleWizardStep, ruleMetricIdx, ruleOpIdx, ruleValInput, customRules>>
    BY <1>2 DEF WizardKey
  <2>2. TypeOK'
    BY <1>1, <2>1 DEF TypeOK, tabVars, modalVars
  <2> QED BY <2>1, <2>2 DEF RootInv, WizardWhole
<1>3. CASE k \in {"up", "down"}
  <2>1. PICK step : Move(step)
    BY <1>3 DEF WizardKey
  <2>2. UNCHANGED <<ruleWizardOpen, ruleWizardStep, ruleValInput, customRules>>
    BY <1>3 DEF WizardKey
  <2>3. TypeOK'
    BY <1>1, <2>1, <2>2, MoveFacts DEF TypeOK, tabVars, modalVars
  <2>4. ruleWizardStep = 3 => UNCHANGED NewRule
    BY <2>1, <2>2, MoveFacts DEF NewRule
  <2>5. ruleWizardStep = 3 => Valid(NewRule)' = Valid(NewRule)
    BY <2>4 DEF Valid
  <2> QED BY <1>1, <2>2, <2>3, <2>5 DEF RootInv, WizardWhole, modalVars
<1>4. CASE k = "backspace" \/ k \notin {"esc", "up", "down", "backspace", "enter"}
  <2>1. /\ UNCHANGED <<ruleWizardOpen, ruleWizardStep, ruleMetricIdx, ruleOpIdx, customRules>>
        /\ \/ ruleValInput' = ruleValInput
           \/ /\ ruleWizardStep = 2 /\ ruleValInput # <<>>
              /\ ruleValInput' = SubSeq(ruleValInput, 1, Len(ruleValInput) - 1)
           \/ /\ ruleWizardStep = 2 /\ (IsDigit(k) \/ k = ".")
              /\ ruleValInput' = Append(ruleValInput, k)
    BY <1>4 DEF WizardKey, Front
  <2>2. ruleValInput' \in Seq(Digits)
    <3>1. ruleValInput \in Seq(Digits)
      BY <1>1 DEF TypeOK, Digits
    <3>2. IsDigit(k) \/ k = "." => k \in Digits
      BY TabKeyFacts DEF IsDigit, Digits
    <3> HIDE DEF Digits
    <3> QED BY <2>1, <3>1, <3>2
  <2>3. TypeOK'
    BY <1>1, <2>1, <2>2 DEF TypeOK, Digits, tabVars, modalVars
  <2>4. ruleWizardStep = 3 => UNCHANGED NewRule
    BY <2>1 DEF NewRule
  <2>5. ruleWizardStep = 3 => Valid(NewRule)' = Valid(NewRule)
    BY <2>4 DEF Valid
  <2> QED BY <1>1, <2>1, <2>3, <2>5 DEF RootInv, WizardWhole, modalVars
<1>5. CASE k = "enter"
  <2>1. WizardEnter /\ UNCHANGED <<ruleMetricIdx, ruleOpIdx, ruleValInput>>
    BY <1>5 DEF WizardKey
  <2> QED BY <1>1, <2>1, WizardEnterKeeps DEF ruleVars
<1> QED BY <1>2, <1>3, <1>4, <1>5
-----------------------------------------------------------------------------
(* The other layers.                                                       *)

LEMMA ShortcutKeeps ==
  ASSUME RootInv, ~ruleWizardOpen, NEW k, Shortcut(k) PROVE RootInv'
<1>1. TypeOK
  BY DEF RootInv
<1>2. CASE Quitting
  BY <1>2, QuittingKeeps
<1>3. CASE ToTab(k)
  BY <1>3, ToTabKeeps
<1>4. CASE OpenWizard /\ alertModalOpen
  <2>1. TypeOK'
    BY <1>1, <1>4, ListFacts DEF TypeOK, OpenWizard, tabVars, modalVars
  <2> QED BY <1>4, <2>1 DEF OpenWizard, RootInv, WizardWhole, modalVars
<1>5. CASE /\ activeTab' \in Tabs /\ UNCHANGED <<tabVars, wizardVars, quit>>
           /\ {helpOpen', diagOpen', alertModalOpen'} \subseteq BOOLEAN
  <2>1. TypeOK'
    BY <1>1, <1>5 DEF TypeOK, tabVars, wizardVars
  <2>2. ~ruleWizardOpen'
    BY <1>5 DEF wizardVars
  <2> QED BY <2>1, <2>2 DEF RootInv, WizardWhole
<1>6. CASE /\ k = "?"
           /\ helpOpen' = TRUE
           /\ UNCHANGED <<activeTab, tabVars, diagOpen, alertModalOpen, wizardVars, quit>>
  BY <1>1, <1>5, <1>6 DEF TypeOK
<1>7. CASE /\ diagOpen' = (IF k = "h" THEN ~diagOpen ELSE diagOpen)
           /\ alertModalOpen' = (IF k = "a" THEN ~alertModalOpen ELSE alertModalOpen)
           /\ UNCHANGED <<activeTab, tabVars, helpOpen, wizardVars, quit>>
  BY <1>1, <1>5, <1>7 DEF TypeOK
<1>8. CASE UNCHANGED <<activeTab, tabVars, modalVars, wizardVars, quit>>
  BY <1>1, <1>5, <1>8 DEF TypeOK, modalVars
<1>9. CASE /\ k \in DOMAIN TabKey
           /\ activeTab' = TabKey[k]
           /\ UNCHANGED <<tabVars, modalVars, wizardVars, quit>>
  BY <1>1, <1>5, <1>9, TabKeyFacts DEF TypeOK, modalVars
<1> QED BY <1>2, <1>3, <1>4, <1>6, <1>7, <1>8, <1>9 DEF Shortcut

\* What a layer says of the state.
LEMMA LayerFacts ==
  ASSUME NEW k
  PROVE  /\ Layer(k) = "modal" => ~ruleWizardOpen /\ ~helpOpen /\ ~AtCapturer /\ ~AtShell
         /\ Layer(k) = "wizard" => ruleWizardOpen
         /\ Layer(k) = "capturer" => AtCapturer /\ ~helpOpen
         /\ Layer(k) = "shortcut" =>
              /\ ~AtShell /\ ~helpOpen /\ ~AtCapturer /\ ~ruleWizardOpen
              /\ k \in {"esc", "q"} => ~diagOpen /\ ~alertModalOpen
         /\ Layer(k) = "help" => helpOpen
         /\ Layer(k) = "shell" => AtShell
BY DEF Layer

LEMMA KeyMsgKeeps ==
  ASSUME RootInv, NEW k, KeyMsg(k) PROVE RootInv'
<1>1. TypeOK
  BY DEF RootInv
<1>2. CASE ToTab(k)
  BY <1>2, ToTabKeeps
<1>3. CASE HelpKey(k)
  <2>1. activeTab' \in Tabs /\ helpOpen' \in BOOLEAN
    BY <1>1, <1>3, TabKeyFacts DEF HelpKey, TypeOK
  <2>2. TypeOK'
    BY <1>1, <1>3, <2>1 DEF HelpKey, TypeOK, tabVars, wizardVars
  <2> QED BY <1>3, <2>2, AsideKeeps DEF HelpKey
<1>4. CASE CapturerKey(k)
  BY <1>4, ToTabKeeps, QuittingKeeps DEF CapturerKey
<1>5. CASE Layer(k) = "wizard" /\ WizardKey(k)
  BY <1>5, LayerFacts, WizardKeyKeeps
<1>6. CASE Layer(k) = "modal" /\ CloseModals
  <2>1. ~ruleWizardOpen'
    BY <1>6, LayerFacts DEF CloseModals, wizardVars
  <2>2. TypeOK'
    BY <1>1, <1>6 DEF CloseModals, TypeOK, tabVars, wizardVars
  <2> QED BY <2>1, <2>2 DEF RootInv, WizardWhole
<1>7. CASE Layer(k) = "shortcut" /\ Shortcut(k)
  BY <1>7, LayerFacts, ShortcutKeeps
<1> QED BY <1>2, <1>3, <1>4, <1>5, <1>6, <1>7 DEF KeyMsg

LEMMA RootInitially == Init => RootInv
<1> SUFFICES ASSUME Init PROVE RootInv
  OBVIOUS
<1>1. TypeOK
  <2>1. \A S : <<>> \in Seq(S)
    OBVIOUS
  <2>2. {termFocused, jump, helpOpen, diagOpen, alertModalOpen, ruleWizardOpen, quit}
          \subseteq BOOLEAN
    BY DEF Init
  <2>3. activeTab \in Tabs /\ typing \subseteq TypingTabs /\ ruleWizardStep \in 0..3
    BY TabKeyFacts DEF Init
  <2>4. ruleMetricIdx \in DOMAIN Metrics /\ ruleOpIdx \in DOMAIN Ops
    BY ListFacts DEF Init
  <2>5. ruleValInput = <<>> /\ customRules = <<>>
    BY DEF Init
  <2> QED BY <2>1, <2>2, <2>3, <2>4, <2>5 DEF TypeOK
<1> QED BY <1>1 DEF Init, RootInv, WizardWhole

LEMMA RootSteps == RootInv /\ [Next]_vars => RootInv'
<1> SUFFICES ASSUME RootInv, [Next]_vars PROVE RootInv'
  OBVIOUS
<1>1. CASE JumpToTab
  <2>1. TypeOK'
    BY <1>1, TabKeyFacts, RootAssumption DEF RootInv, JumpToTab, TypeOK, modalVars, wizardVars
  <2> QED BY <1>1, <2>1, AsideKeeps DEF JumpToTab, modalVars
<1>2. CASE ShellExits
  <2>1. TypeOK'
    BY <1>2 DEF RootInv, ShellExits, TypeOK, modalVars, wizardVars
  <2> QED BY <1>2, <2>1, AsideKeeps DEF ShellExits, modalVars
<1>3. CASE UNCHANGED vars
  <2>1. TypeOK'
    BY <1>3 DEF RootInv, TypeOK, vars, tabVars, modalVars, wizardVars
  <2> QED BY <1>3, <2>1, AsideKeeps DEF vars, modalVars
<1> QED BY <1>1, <1>2, <1>3, KeyMsgKeeps DEF Next

LEMMA RootInvariant == Spec => []RootInv
BY RootInitially, RootSteps, PTL DEF Spec
-----------------------------------------------------------------------------
(* The theorems.                                                           *)

\* Whatever is pressed, the tab, the modals and the wizard's cursors and texts
\* keep their types; the cursors point into their lists (app.go:278).
THEOREM RootTyped == Spec => []TypeOK
<1>1. RootInv => TypeOK
  BY DEF RootInv
<1> QED BY <1>1, RootInvariant, PTL

\* For any keys, metrics, ranges and operators: the wizard is open only over
\* the alert drawer, and at its last step the rule is one Validate accepts
\* (app.go:258).
THEOREM WizardStaysWhole == Spec => []WizardWhole
<1>1. RootInv => WizardWhole
  BY DEF RootInv
<1> QED BY <1>1, RootInvariant, PTL

\* A step of a key leaves the tab that captures input only by a jump, and ends
\* the program only by ctrl+c (app.go:238).
THEOREM CapturersKeepTheirKeys == Spec => CapturerKeepsKeys
<1> DEFINE Kept == AtCapturer /\ ~helpOpen =>
                     /\ UNCHANGED activeTab \/ jump
                     /\ quit' = quit \/ KeyMsg("ctrl+c")
<1>1. [Next]_vars => [Kept]_vars
  <2> SUFFICES ASSUME Next, AtCapturer, ~helpOpen
               PROVE  /\ UNCHANGED activeTab \/ jump
                      /\ quit' = quit \/ KeyMsg("ctrl+c")
    OBVIOUS
  <2>1. ~AtShell
    BY DEF AtCapturer, AtShell, Capturers
  <2>2. ASSUME NEW k \in Keys, KeyMsg(k)
        PROVE  UNCHANGED activeTab /\ (quit' = quit \/ KeyMsg("ctrl+c"))
    <3>1. Layer(k) = "capturer"
      BY <2>1 DEF Layer
    <3>2. CapturerKey(k)
      BY <2>2, <3>1 DEF KeyMsg
    <3>3. CASE k = "ctrl+c"
      BY <2>2, <3>2, <3>3 DEF CapturerKey, Quitting
    <3>4. CASE k # "ctrl+c"
      BY <3>2, <3>4 DEF CapturerKey, ToTab
    <3> QED BY <3>3, <3>4
  <2>3. CASE JumpToTab \/ ShellExits
    BY <2>3 DEF JumpToTab, ShellExits
  <2> QED BY <2>2, <2>3 DEF Next
<1> QED BY <1>1, PTL DEF Spec, CapturerKeepsKeys

\* q ends the program only where the root model has no drawer, modal or wizard
\* open, the tab captures no input and is not the terminal: Update's order asks
\* them all first (app.go:214-377).  It does not ask a tab that is no capturer,
\* for its filter or its panels: there q does end it.
THEOREM QuitsOnlyFromBase == Spec => QuitOnlyFromBase
<1> DEFINE Base == KeyMsg("q") /\ quit' =>
                     ~helpOpen /\ ~diagOpen /\ ~alertModalOpen /\ ~ruleWizardOpen
                       /\ ~AtCapturer /\ activeTab # "Terminal"
<1>1. [Next]_vars => [Base]_vars
  <2> SUFFICES ASSUME KeyMsg("q"), quit'
               PROVE  ~helpOpen /\ ~diagOpen /\ ~alertModalOpen /\ ~ruleWizardOpen
                        /\ ~AtCapturer /\ activeTab # "Terminal"
    OBVIOUS
  <2>1. ~quit
    BY DEF KeyMsg
  <2>2. ~ToTab("q") /\ ~HelpKey("q") /\ ~CloseModals /\ ~WizardKey("q") /\ ~CapturerKey("q")
    BY <2>1 DEF ToTab, HelpKey, CloseModals, WizardKey, CapturerKey
  <2>3. Layer("q") = "shortcut" /\ Shortcut("q")
    BY <2>2 DEF KeyMsg
  <2>4. activeTab # "Terminal"
    BY <2>1, <2>2, <2>3 DEF Shortcut, Toggles, TabKey
  <2> QED BY <2>3, <2>4, LayerFacts
<1> QED BY <1>1, PTL DEF Spec, QuitOnlyFromBase
=============================================================================
