----------------------------- MODULE RootModel ------------------------------
(***************************************************************************)
(* internal/ui/app.go: who gets a key press.  Update asks, in this order,  *)
(* the focused terminal, the help drawer, a tab that captures input, the   *)
(* rule wizard, the two modals, and its own shortcuts, and hands the rest  *)
(* to the active tab.  One key press is one step; a jump to another tab    *)
(* and the end of the shell are messages that come in between.             *)
(*                                                                         *)
(* A tab is what the root model sees of it: whether it is typing (a filter *)
(* or a form takes its keys) and, for the terminal, whether it has focus.  *)
(* The panels a tab shows over its list make no difference to who is asked.*)
(* Layout, toasts, scrolling, the help's mode, the sampling mode and the   *)
(* theme, which no decision depends on, are left out, and so are the text  *)
(* of a rule's label and the messages of the wizard.                       *)
(***************************************************************************)
EXTENDS Integers, Sequences, SequencesExt

CONSTANTS
  Keys,         \* the keys pressed; the letters stand for both cases
  TypingTabs,   \* tabs that may take text
  Metrics,      \* wizardMetrics: a sequence of [key, min, max]
  Ops,          \* wizardOps: a sequence of operators
  MaxInput,     \* bound: characters of the wizard's value
  MaxRules      \* bound: rules made in a behaviour

\* The tab keys and the tabs they lead to.
TabKey ==
  [k \in {"1", "2", "3", "4", "5", "6", "7", "8", "9", "0"} |->
    CASE k = "1" -> "Dashboard" [] k = "2" -> "Process"  [] k = "3" -> "Network"
      [] k = "4" -> "Docker"    [] k = "5" -> "Services" [] k = "6" -> "Terminal"
      [] k = "7" -> "Firewall"  [] k = "8" -> "Packages" [] k = "9" -> "Users"
      [] k = "0" -> "Advanced"]

Tabs == {TabKey[k] : k \in DOMAIN TabKey}

\* The tabs with an IsInputActive method (tabs.InputCapturer).
Capturers == {"Process", "Firewall", "Packages", "Users"}

ASSUME RootAssumption ==
  /\ TypingTabs \subseteq Tabs \ {"Terminal"}
  /\ "Firewall" \in TypingTabs
  /\ Metrics \in Seq([key : STRING, min : Nat, max : Nat]) /\ Metrics # <<>>
  /\ Ops \in Seq({">", ">=", "<", "=="}) /\ Ops # <<>>

VARIABLES
  activeTab,
  typing,           \* the tabs that are taking text
  termFocused,      \* Terminal.focused
  jump,             \* a JumpToTabMsg to the firewall tab is on its way
  helpOpen,
  diagOpen,
  alertModalOpen,
  ruleWizardOpen,
  ruleWizardStep,   \* 0 metric, 1 operator, 2 value, 3 label
  ruleMetricIdx,    \* 1-based here
  ruleOpIdx,        \* 1-based here
  ruleValInput,     \* the characters typed
  customRules,      \* cfg.Alerts.CustomRules, as the wizard extends it
  quit              \* Update returned tea.Quit

tabVars == <<typing, termFocused, jump>>
modalVars == <<helpOpen, diagOpen, alertModalOpen>>
wizardVars == <<ruleWizardOpen, ruleWizardStep, ruleMetricIdx, ruleOpIdx,
                ruleValInput, customRules>>
vars == <<activeTab, tabVars, modalVars, wizardVars, quit>>

Init ==
  /\ activeTab = "Dashboard"
  /\ typing = {}
  /\ termFocused = FALSE
  /\ jump = FALSE
  /\ helpOpen = FALSE /\ diagOpen = FALSE /\ alertModalOpen = FALSE
  /\ ruleWizardOpen = FALSE
  /\ ruleWizardStep = 0
  /\ ruleMetricIdx = 1 /\ ruleOpIdx = 1
  /\ ruleValInput = <<>>
  /\ customRules = <<>>
  /\ quit = FALSE
-----------------------------------------------------------------------------
(* The wizard's number.                                                    *)

DigitValue ==
  [c \in DOMAIN TabKey |->
    CASE c = "1" -> 1 [] c = "2" -> 2 [] c = "3" -> 3 [] c = "4" -> 4 [] c = "5" -> 5
      [] c = "6" -> 6 [] c = "7" -> 7 [] c = "8" -> 8 [] c = "9" -> 9 [] c = "0" -> 0]

IsDigit(c) == c \in DOMAIN DigitValue

\* strconv.ParseFloat on digits and dots: one dot at most, one digit at least.
Parses(v) ==
  /\ Len(SelectSeq(v, LAMBDA c : c = ".")) <= 1
  /\ \E i \in DOMAIN v : IsDigit(v[i])

BeforeDot(v) ==
  IF \E i \in DOMAIN v : v[i] = "."
    THEN SubSeq(v, 1, (CHOOSE i \in DOMAIN v : v[i] = ".") - 1) ELSE v

Whole(v) == FoldLeft(LAMBDA n, c : 10 * n + DigitValue[c], 0, BeforeDot(v))

HasFraction(v) ==
  \E i, j \in DOMAIN v : v[i] = "." /\ j > i /\ v[j] # "0"

\* val >= lo && val <= hi
Within(v, lo, hi) ==
  /\ Whole(v) >= lo
  /\ Whole(v) < hi \/ (Whole(v) = hi /\ ~HasFraction(v))

\* config.CustomRule.Validate on a rule of the wizard.
Valid(rule) ==
  /\ \E i \in DOMAIN Metrics :
       /\ Metrics[i].key = rule.metric
       /\ Parses(rule.value) /\ Within(rule.value, Metrics[i].min, Metrics[i].max)
  /\ rule.op \in {">", ">=", "<", "=="}
-----------------------------------------------------------------------------
(* What a tab does with a key, as far as the root model can tell.          *)

TabUpdate(tab, k) ==
  \/ /\ tab = "Terminal"
     /\ termFocused' \in (IF termFocused /\ k = "esc" THEN BOOLEAN      \* twice
                          ELSE IF k = "enter" THEN {termFocused, TRUE}
                          ELSE {termFocused})
     /\ UNCHANGED <<typing, jump>>
  \/ /\ tab \in TypingTabs
     /\ typing' \in {typing \cup {tab}, typing \ {tab}}
     /\ UNCHANGED <<termFocused, jump>>
  \/ /\ tab \in {"Network", "Advanced"}
     /\ k = "x"                       \* f on a listener, b on an SSH session
     /\ jump' = TRUE
     /\ UNCHANGED <<typing, termFocused>>
  \/ /\ tab \notin TypingTabs \cup {"Terminal"}
     /\ UNCHANGED tabVars

\* The key goes to the active tab, and the root model does nothing else.
ToTab(k) ==
  /\ TabUpdate(activeTab, k)
  /\ UNCHANGED <<activeTab, modalVars, wizardVars, quit>>

Quitting ==
  /\ quit' = TRUE
  /\ UNCHANGED <<activeTab, tabVars, modalVars, wizardVars>>
-----------------------------------------------------------------------------
(* The layers of Update's key handling, the first that applies.            *)

AtShell == activeTab = "Terminal" /\ termFocused
AtCapturer == activeTab \in typing \cap Capturers

\* Mutant of Layer: only the diagnostics modal takes esc and q.
LayerDrawerDeaf(k) ==
  IF AtShell THEN "shell"
  ELSE IF helpOpen THEN "help"
  ELSE IF AtCapturer THEN "capturer"
  ELSE IF ruleWizardOpen THEN "wizard"
  ELSE IF k \in {"esc", "q"} /\ diagOpen THEN "modal"
  ELSE "shortcut"

\* Mutant of Layer: the shortcuts are asked before the tab that captures.
LayerCapturerLast(k) ==
  IF AtShell THEN "shell"
  ELSE IF helpOpen THEN "help"
  ELSE IF ruleWizardOpen THEN "wizard"
  ELSE IF k \in {"esc", "q"} /\ (diagOpen \/ alertModalOpen) THEN "modal"
  ELSE IF AtCapturer /\ k \notin DOMAIN TabKey THEN "capturer"
  ELSE "shortcut"

\* Which of Update's blocks handles key k.
Layer(k) ==
  IF AtShell THEN "shell"
  ELSE IF helpOpen THEN "help"
  ELSE IF AtCapturer THEN "capturer"
  ELSE IF ruleWizardOpen THEN "wizard"
  ELSE IF k \in {"esc", "q"} /\ (diagOpen \/ alertModalOpen) THEN "modal"
  ELSE "shortcut"

HelpKey(k) ==
  /\ helpOpen' = (k \notin {"?", "q", "esc"} /\ k \notin DOMAIN TabKey)
  /\ activeTab' = IF k \in DOMAIN TabKey THEN TabKey[k] ELSE activeTab
  /\ UNCHANGED <<tabVars, diagOpen, alertModalOpen, wizardVars, quit>>

CapturerKey(k) == IF k = "ctrl+c" THEN Quitting ELSE ToTab(k)

CloseModals ==
  /\ diagOpen' = FALSE
  /\ alertModalOpen' = FALSE
  /\ UNCHANGED <<activeTab, tabVars, helpOpen, wizardVars, quit>>
-----------------------------------------------------------------------------
(* The rule wizard.                                                        *)

\* Mutant of Move: the cursor keys move the metric at the later steps too.
MoveAnywhere(step) ==
  IF ruleWizardStep = 1
    THEN /\ ruleOpIdx' = IF ruleOpIdx + step \in DOMAIN Ops THEN ruleOpIdx + step
                         ELSE ruleOpIdx
         /\ UNCHANGED ruleMetricIdx
    ELSE /\ ruleMetricIdx' = IF ruleMetricIdx + step \in DOMAIN Metrics
                               THEN ruleMetricIdx + step ELSE ruleMetricIdx
         /\ UNCHANGED ruleOpIdx

\* Mutant of Move: the upper end of a list is tested one too late.
MoveTooFar(step) ==
  /\ ruleMetricIdx' = IF ruleWizardStep = 0 /\ ruleMetricIdx + step \in 1 .. Len(Metrics) + 1
                        THEN ruleMetricIdx + step ELSE ruleMetricIdx
  /\ ruleOpIdx' = IF ruleWizardStep = 1 /\ ruleOpIdx + step \in DOMAIN Ops
                    THEN ruleOpIdx + step ELSE ruleOpIdx

\* up, k and down, j: through the list of the present step, if it has one.
Move(step) ==
  /\ ruleMetricIdx' = IF ruleWizardStep = 0 /\ ruleMetricIdx + step \in DOMAIN Metrics
                        THEN ruleMetricIdx + step ELSE ruleMetricIdx
  /\ ruleOpIdx' = IF ruleWizardStep = 1 /\ ruleOpIdx + step \in DOMAIN Ops
                    THEN ruleOpIdx + step ELSE ruleOpIdx

NewRule ==
  [metric |-> Metrics[ruleMetricIdx].key, op |-> Ops[ruleOpIdx], value |-> ruleValInput]

\* enter: the next step; from the value only if it is in the metric's range;
\* from the label, the rule is made and the wizard closes.
WizardEnter ==
  \/ /\ ruleWizardStep < 2
     /\ ruleWizardStep' = ruleWizardStep + 1
     /\ UNCHANGED <<ruleWizardOpen, customRules>>
  \/ /\ ruleWizardStep = 2
     /\ LET met == Metrics[ruleMetricIdx]
        IN  ruleWizardStep' = IF Parses(ruleValInput)
                                 /\ Within(ruleValInput, met.min, met.max)
                                THEN 3 ELSE 2
     /\ UNCHANGED <<ruleWizardOpen, customRules>>
  \/ /\ ruleWizardStep = 3
     /\ IF Valid(NewRule)
          THEN /\ customRules' = Append(customRules, NewRule)
               /\ ruleWizardOpen' = FALSE
          ELSE UNCHANGED <<customRules, ruleWizardOpen>>
     /\ UNCHANGED ruleWizardStep

WizardKey(k) ==
  /\ \/ /\ k = "esc"
        /\ ruleWizardOpen' = FALSE
        /\ UNCHANGED <<ruleWizardStep, ruleMetricIdx, ruleOpIdx, ruleValInput,
                       customRules>>
     \/ /\ k \in {"up", "down"}
        /\ Move(IF k = "up" THEN -1 ELSE 1)
        /\ UNCHANGED <<ruleWizardOpen, ruleWizardStep, ruleValInput, customRules>>
     \/ /\ k = "backspace"
        /\ ruleValInput' = IF ruleWizardStep = 2 /\ ruleValInput # <<>>
                             THEN Front(ruleValInput) ELSE ruleValInput
        /\ UNCHANGED <<ruleWizardOpen, ruleWizardStep, ruleMetricIdx, ruleOpIdx,
                       customRules>>
     \/ /\ k = "enter"
        /\ WizardEnter
        /\ UNCHANGED <<ruleMetricIdx, ruleOpIdx, ruleValInput>>
     \/ /\ k \notin {"esc", "up", "down", "backspace", "enter"}
        /\ ruleValInput' = IF ruleWizardStep = 2 /\ (IsDigit(k) \/ k = ".")
                                /\ Len(ruleValInput) < MaxInput
                             THEN Append(ruleValInput, k) ELSE ruleValInput
        /\ UNCHANGED <<ruleWizardOpen, ruleWizardStep, ruleMetricIdx, ruleOpIdx,
                       customRules>>
  /\ UNCHANGED <<activeTab, tabVars, modalVars, quit>>

\* c with the alert drawer open: the wizard opens at its first step, cleared.
OpenWizard ==
  /\ ruleWizardOpen' = TRUE
  /\ ruleWizardStep' = 0
  /\ ruleMetricIdx' = 1 /\ ruleOpIdx' = 1
  /\ ruleValInput' = <<>>
  /\ UNCHANGED <<activeTab, tabVars, modalVars, customRules, quit>>
-----------------------------------------------------------------------------
(* The root model's own shortcuts.  A letter that is a shortcut elsewhere  *)
(* and not on this tab is dropped: only the default case hands keys on.    *)

Toggles(k) ==
  \/ k = "h" /\ activeTab # "Users"
  \/ k = "a" /\ activeTab \notin {"Docker", "Firewall", "Users"}

Shortcut(k) ==
  \/ k = "ctrl+c" /\ Quitting
  \/ k = "q" /\ IF activeTab = "Terminal" THEN ToTab(k) ELSE Quitting
  \/ /\ k = "?"
     /\ helpOpen' = TRUE
     /\ UNCHANGED <<activeTab, tabVars, diagOpen, alertModalOpen, wizardVars, quit>>
  \/ /\ Toggles(k)
     /\ diagOpen' = IF k = "h" THEN ~diagOpen ELSE diagOpen
     /\ alertModalOpen' = IF k = "a" THEN ~alertModalOpen ELSE alertModalOpen
     /\ UNCHANGED <<activeTab, tabVars, helpOpen, wizardVars, quit>>
  \/ k = "c" /\ alertModalOpen /\ Len(customRules) < MaxRules /\ OpenWizard
  \/ /\ \/ k \in {"h", "a"} /\ ~Toggles(k)
        \/ k = "c" /\ ~alertModalOpen
        \/ k \in {"t", "r", "e"}             \* theme, sampling mode, export
     /\ UNCHANGED <<activeTab, tabVars, modalVars, wizardVars, quit>>
  \/ /\ k \in DOMAIN TabKey
     /\ activeTab' = TabKey[k]
     /\ UNCHANGED <<tabVars, modalVars, wizardVars, quit>>
  \/ k \in {"esc", "enter", "up", "down", "backspace", ".", "x"} /\ ToTab(k)

\* Update on a tea.KeyMsg.
KeyMsg(k) ==
  /\ ~quit
  /\ \/ Layer(k) = "shell" /\ ToTab(k)
     \/ Layer(k) = "help" /\ HelpKey(k)
     \/ Layer(k) = "capturer" /\ CapturerKey(k)
     \/ Layer(k) = "wizard" /\ WizardKey(k)
     \/ Layer(k) = "modal" /\ CloseModals
     \/ Layer(k) = "shortcut" /\ Shortcut(k)

\* Update on the JumpToTabMsg: the firewall tab opens its form, pre-filled.
JumpToTab ==
  /\ ~quit
  /\ jump
  /\ jump' = FALSE
  /\ activeTab' = "Firewall"
  /\ typing' = typing \cup {"Firewall"}
  /\ UNCHANGED <<termFocused, modalVars, wizardVars, quit>>

\* The terminal's termExitMsg: the shell has ended.
ShellExits ==
  /\ ~quit
  /\ termFocused
  /\ termFocused' = FALSE
  /\ UNCHANGED <<activeTab, typing, jump, modalVars, wizardVars, quit>>

Next == JumpToTab \/ ShellExits \/ \E k \in Keys : KeyMsg(k)

Spec == Init /\ [][Next]_vars
-----------------------------------------------------------------------------
Rule ==
  [metric : {Metrics[i].key : i \in DOMAIN Metrics},
   op : {Ops[i] : i \in DOMAIN Ops}, value : Seq(DOMAIN TabKey \cup {"."})]

TypeOK ==
  /\ activeTab \in Tabs
  /\ typing \subseteq TypingTabs
  /\ {termFocused, jump, helpOpen, diagOpen, alertModalOpen, ruleWizardOpen, quit}
       \subseteq BOOLEAN
  /\ ruleWizardStep \in 0 .. 3
  /\ ruleMetricIdx \in DOMAIN Metrics
  /\ ruleOpIdx \in DOMAIN Ops
  /\ ruleValInput \in Seq(DOMAIN TabKey \cup {"."})
  /\ customRules \in Seq(Rule)

\* The wizard is only ever open over the alert drawer it belongs to, so that
\* leaving it leads back there, whatever jumps and modals came in between; and
\* a rule about to be made is one config.CustomRule.Validate accepts, so the
\* last step cannot fail (its second parse ignores the error): what was checked
\* at the value step still holds whatever was pressed since.
WizardWhole ==
  ruleWizardOpen => alertModalOpen /\ (ruleWizardStep = 3 => Valid(NewRule))

\* app.go: a capturing tab gets "ALL keypresses directly ... instead of
\* switching tabs or quitting".  While it types, and no drawer is over it,
\* only a jump leaves the tab and only ctrl+c quits.
CapturerKeepsKeys ==
  [][AtCapturer /\ ~helpOpen =>
       /\ UNCHANGED activeTab \/ jump
       /\ quit' = quit \/ KeyMsg("ctrl+c")]_vars

\* q quits only where the root model has no drawer, modal or wizard open, the
\* tab captures no input and is not the terminal, over every sequence of jumps,
\* tab changes and modals left open behind.  Nothing is said of tabs that are no
\* capturers: q quits over the filters of Network and Services, and over panels
\* that q is meant to close, Docker's (docker.go:126), the details of Services
\* (services.go:165) and the result of Packages (packages.go:143).
QuitOnlyFromBase ==
  [][KeyMsg("q") /\ quit' =>
       ~helpOpen /\ ~diagOpen /\ ~alertModalOpen /\ ~ruleWizardOpen
         /\ ~AtCapturer /\ activeTab # "Terminal"]_vars

\* README: "Smart input focus lock preventing tab switching while typing PIDs,
\* port numbers, or search filters".  A digit typed into a tab stays there.
TypingKeepsTab ==
  [][(activeTab \in typing /\ ~helpOpen /\ ~ruleWizardOpen
        /\ \E k \in DOMAIN TabKey : KeyMsg(k))
       => UNCHANGED activeTab]_vars
=============================================================================
