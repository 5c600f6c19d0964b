------------------------- MODULE ConfigStoreProofs -------------------------
(***************************************************************************)
(* Proofs about ConfigStore, for any number of commands, passwords and     *)
(* versions of the package.                                                *)
(***************************************************************************)
EXTENDS ConfigStore, TLAPS

-----------------------------------------------------------------------------
(* The inductive invariant                                                 *)

Entry(t) ==
  [at : {"entry"}, salt : 1 .. salts, factory : 1 .. package,
   secrets : [Secrets(t) -> [salt : Nat, password : Password]]]

Editing ==
  [at : {"confirm", "prompts"}, type : Type, password : Password, salt : 0 .. salts,
   factory : 0 .. package]

Types ==
  /\ salts \in Nat /\ package \in 1 .. MaxPackages
  /\ DOMAIN store = Type /\ \A t \in Type : store[t] \in {None} \cup Entry(t)
  /\ commands \in [Command -> {NotRunning} \cup Editing \cup [at : {"delete"}, type : Type]]
  /\ DOMAIN confirmed = Type

\* A command at its prompts has a password that was typed twice, if not to it then to the
\* command that wrote the entry it opened, and a factory.
PromptsSound ==
  \A c \in Command : commands[c].at = "prompts" =>
    /\ commands[c].password \in confirmed[commands[c].type]
    /\ commands[c].factory \in 1 .. package

\* As long as an entry is the one that a command has read, its factory is.
ReadSound ==
  \A c \in Command : commands[c].at = "prompts" /\ store[commands[c].type] # None
                     /\ commands[c].salt = store[commands[c].type].salt
    => commands[c].factory = store[commands[c].type].factory

\* A command that found no entry has no salt of one.
FoundSound == \A c \in Command : commands[c].at = "confirm" => commands[c].salt = 0

IInv == Types /\ EntryOpens /\ PromptsSound /\ ReadSound /\ FoundSound

-----------------------------------------------------------------------------
LEMMA Distinct ==
  /\ NotRunning.at = "idle" /\ None.at = "none" /\ NotRunning \notin Editing
  /\ \A t \in Type : None \notin Entry(t) /\ "privkey" \in Secrets(t)
BY DEF NotRunning, None, Editing, Entry, Secrets

LEMMA InitHolds == StoreInit => IInv
<1> SUFFICES ASSUME StoreInit PROVE IInv
  OBVIOUS
<1>1. \A c \in Command : commands[c] = NotRunning
  BY DEF StoreInit
<1>2. \A t \in Type : store[t] = None
  BY DEF StoreInit
<1>3. commands \in [Command -> {NotRunning}]
  BY DEF StoreInit
<1>4. EntryOpens /\ PromptsSound /\ ReadSound /\ FoundSound
  BY <1>1, <1>2, Distinct DEF EntryOpens, PromptsSound, ReadSound, FoundSound
<1>5. Types
  <2>1. commands \in [Command -> {NotRunning} \cup Editing \cup [at : {"delete"}, type : Type]]
    BY <1>3
  <2>2. salts \in Nat /\ DOMAIN store = Type /\ DOMAIN confirmed = Type
    BY DEF StoreInit
  <2>3. package \in 1 .. MaxPackages
    BY StoreSizes DEF StoreInit
  <2> QED BY <1>2, <2>1, <2>2, <2>3 DEF Types
<1> QED BY <1>4, <1>5 DEF IInv

\* The invariant survives a step of one command that leaves the store alone.
LEMMA CommandMoves ==
  ASSUME IInv, NEW c \in Command,
         NEW state \in {NotRunning} \cup Editing \cup [at : {"delete"}, type : Type],
         Goto(c, state), UNCHANGED <<store, salts, package>>, DOMAIN confirmed' = Type,
         \A t \in Type : confirmed[t] \subseteq confirmed'[t],
         state.at = "confirm" => state.salt = 0,
         state.at = "prompts" =>
           /\ state.password \in confirmed'[state.type] /\ state.factory \in 1 .. package
           /\ store[state.type] # None /\ state.salt = store[state.type].salt
                => state.factory = store[state.type].factory
  PROVE  IInv'
<1>0. commands \in [Command -> {NotRunning} \cup Editing \cup [at : {"delete"}, type : Type]]
  BY DEF IInv, Types
<1>1. /\ commands' \in [Command -> {NotRunning} \cup Editing \cup [at : {"delete"}, type : Type]]
      /\ commands'[c] = state /\ \A d \in Command : d # c => commands'[d] = commands[d]
  BY <1>0 DEF Goto
<1>2. Types'
  <2>1. \A t \in Type : Entry(t)' = Entry(t)
    BY DEF Entry
  <2>2. Editing' = Editing
    BY DEF Editing
  <2> QED BY <1>1, <2>1, <2>2 DEF IInv, Types
<1>3. EntryOpens'
  BY DEF IInv, EntryOpens
<1>4. PromptsSound'
  <2> SUFFICES ASSUME NEW d \in Command, commands'[d].at = "prompts"
               PROVE  /\ commands'[d].password \in confirmed'[commands'[d].type]
                      /\ commands'[d].factory \in 1 .. package
    BY DEF PromptsSound
  <2>1. CASE d = c
    BY <1>1, <2>1
  <2>2. CASE d # c
    <3>1. commands'[d] = commands[d] /\ commands[d].type \in Type
      BY <1>0, <1>1, <2>2, Distinct DEF Editing
    <3> QED BY <3>1 DEF IInv, PromptsSound
  <2> QED BY <2>1, <2>2
<1>5. ReadSound'
  BY <1>1 DEF IInv, ReadSound
<1>6. FoundSound'
  BY <1>1 DEF IInv, FoundSound
<1> QED BY <1>2, <1>3, <1>4, <1>5, <1>6 DEF IInv

LEMMA InitCommandKeeps ==
  ASSUME IInv, NEW c \in Command, NEW t \in Type, NEW password \in Password,
         InitCommand(c, t, password)
  PROVE  IInv'
<1>0. /\ salts \in Nat /\ package \in Nat /\ DOMAIN confirmed = Type
      /\ UNCHANGED <<store, salts, package, confirmed>>
  BY DEF InitCommand, IInv, Types
<1>1. CASE Goto(c, Found(t, password))
  <2>1. Found(t, password) \in Editing
    BY <1>0 DEF Found, Editing
  <2>2. Found(t, password).at = "confirm" /\ Found(t, password).salt = 0
    BY DEF Found
  <2> QED BY <1>0, <1>1, <2>1, <2>2, CommandMoves
<1>2. CASE /\ store[t] # None /\ Unlocked(t, password)
           /\ Goto(c, [at |-> "prompts", type |-> t, password |-> password,
                       salt |-> store[t].salt, factory |-> store[t].factory])
  <2> DEFINE state == [at |-> "prompts", type |-> t, password |-> password,
                       salt |-> store[t].salt, factory |-> store[t].factory]
  <2>1. store[t] \in Entry(t)
    BY <1>2 DEF IInv, Types
  <2>2. store[t].salt \in 1 .. salts /\ store[t].factory \in 1 .. package
    BY <2>1 DEF Entry
  <2>3. state \in Editing
    BY <1>0, <2>2 DEF Editing
  <2>4. password \in confirmed[t]
    <3>1. PICK p \in confirmed[t] :
            \A s \in Secrets(t) : store[t].secrets[s] = Encrypt(store[t].salt, p)
      BY <1>2 DEF IInv, EntryOpens
    <3>2. Encrypt(store[t].salt, p) = Encrypt(store[t].salt, password)
      BY <1>2, <3>1, Distinct DEF Unlocked, Opens
    <3> QED BY <3>1, <3>2 DEF Encrypt
  <2> QED BY <1>0, <1>2, <2>2, <2>3, <2>4, CommandMoves
<1> QED BY <1>1, <1>2 DEF InitCommand

LEMMA ConfirmKeeps == ASSUME IInv, NEW c \in Command, Confirm(c) PROVE IInv'
<1> DEFINE state == [commands[c] EXCEPT !.at = "prompts", !.factory = package]
<1>1. /\ commands[c] \in Editing /\ commands[c].salt = 0 /\ package \in 1 .. MaxPackages
      /\ salts \in Nat /\ DOMAIN confirmed = Type
  BY Distinct DEF Confirm, IInv, Types, FoundSound
<1>2. package \in Nat /\ package \in 1 .. package
  BY <1>1, StoreSizes
<1>3. /\ state \in Editing /\ state.at = "prompts" /\ state.factory = package /\ state.salt = 0
      /\ state.type = commands[c].type /\ state.password = commands[c].password
      /\ state.type \in Type
  <2>1. /\ commands[c] \in [at : {"confirm", "prompts"}, type : Type, password : Password,
                            salt : 0 .. salts, factory : 0 .. package]
        /\ package \in 0 .. package
    BY <1>1, <1>2 DEF Editing
  <2>2. state \in [at : {"confirm", "prompts"}, type : Type, password : Password,
                   salt : 0 .. salts, factory : 0 .. package]
    BY <2>1
  <2> QED BY <1>1, <2>1, <2>2 DEF Editing
<1>4. /\ Goto(c, state) /\ UNCHANGED <<store, salts, package>>
      /\ confirmed' = [confirmed EXCEPT ![commands[c].type] = @ \cup {commands[c].password}]
  BY DEF Confirm
<1> HIDE DEF state
<1>5. /\ DOMAIN confirmed' = Type /\ \A t \in Type : confirmed[t] \subseteq confirmed'[t]
      /\ state.password \in confirmed'[state.type]
  BY <1>1, <1>3, <1>4
<1>6. store[state.type] # None => store[state.type].salt # 0
  <2> SUFFICES ASSUME store[state.type] # None PROVE store[state.type].salt # 0
    OBVIOUS
  <2>1. store[state.type] \in Entry(state.type)
    BY <1>3 DEF IInv, Types
  <2>2. store[state.type].salt \in 1 .. salts
    BY <2>1 DEF Entry
  <2> QED BY <1>1, <2>2
<1> QED BY <1>2, <1>3, <1>4, <1>5, <1>6, CommandMoves

LEMMA CancelKeeps == ASSUME IInv, NEW c \in Command, Cancel(c) PROVE IInv'
<1>1. /\ Goto(c, NotRunning) /\ UNCHANGED <<store, salts, package, confirmed>>
      /\ DOMAIN confirmed = Type
  BY DEF Cancel, IInv, Types
<1> QED BY <1>1, Distinct, CommandMoves

LEMMA DeleteCommandKeeps ==
  ASSUME IInv, NEW c \in Command, NEW t \in Type, DeleteCommand(c, t) PROVE IInv'
<1>1. /\ Goto(c, [at |-> "delete", type |-> t]) /\ DOMAIN confirmed = Type
      /\ UNCHANGED <<store, salts, package, confirmed>>
  BY DEF DeleteCommand, IInv, Types
<1>2. [at |-> "delete", type |-> t] \in [at : {"delete"}, type : Type]
  OBVIOUS
<1> QED BY <1>1, <1>2, CommandMoves

\* A new entry has a new salt: no command has read it.
LEMMA WriteKeeps == ASSUME IInv, NEW c \in Command, Write(c) PROVE IInv'
<1> DEFINE config == commands[c]
           entry == [at |-> "entry", salt |-> salts + 1, factory |-> config.factory,
                     secrets |-> [s \in Secrets(config.type) |-> Encrypt(salts + 1, config.password)]]
<1>1. /\ config \in Editing /\ config.at = "prompts" /\ config.type \in Type
      /\ config.password \in Password /\ config.password \in confirmed[config.type]
      /\ config.factory \in 1 .. package /\ salts \in Nat /\ package \in 1 .. MaxPackages
      /\ DOMAIN store = Type
  BY Distinct DEF Write, IInv, Types, PromptsSound, Editing
<1>2. /\ salts' = salts + 1 /\ store' = [store EXCEPT ![config.type] = entry]
      /\ commands' = [commands EXCEPT ![c] = NotRunning]
      /\ UNCHANGED <<package, confirmed>>
  BY DEF Write, Factory, SealedWith, Goto
<1>3. /\ DOMAIN store' = Type /\ store'[config.type] = entry
      /\ \A t \in Type : t # config.type => store'[t] = store[t]
  BY <1>1, <1>2
<1>4. salts + 1 \in 1 .. (salts + 1) /\ 1 .. salts \subseteq 1 .. (salts + 1)
      /\ 0 .. salts \subseteq 0 .. (salts + 1)
  BY <1>1
<1>5. ASSUME NEW t \in Type, t = config.type PROVE entry \in Entry(t)'
  <2>1. Encrypt(salts + 1, config.password) \in [salt : Nat, password : Password]
    BY <1>1 DEF Encrypt
  <2>2. entry.secrets \in [Secrets(t) -> [salt : Nat, password : Password]]
    BY <1>5, <2>1
  <2> HIDE DEF config
  <2> QED BY <1>1, <1>2, <1>4, <2>2 DEF Entry
<1>6. commands \in [Command -> {NotRunning} \cup Editing \cup [at : {"delete"}, type : Type]]
  BY DEF IInv, Types
<1>7. commands'[c] = NotRunning /\ \A d \in Command : d # c => commands'[d] = commands[d]
  BY <1>2, <1>6
<1>8. Types'
  <2>1. \A t \in Type : store'[t] \in {None} \cup Entry(t)'
    <3> SUFFICES ASSUME NEW t \in Type PROVE store'[t] \in {None} \cup Entry(t)'
      OBVIOUS
    <3>1. CASE t = config.type
      BY <1>3, <1>5, <3>1
    <3>2. CASE t # config.type
      <4>1. store[t] \in {None} \cup Entry(t)
        BY DEF IInv, Types
      <4>2. Entry(t) \subseteq Entry(t)'
        BY <1>2, <1>4 DEF Entry
      <4> QED BY <1>3, <3>2, <4>1, <4>2
    <3> QED BY <3>1, <3>2
  <2>2. Editing \subseteq Editing'
    BY <1>2, <1>4 DEF Editing
  <2>3. commands' \in [Command -> {NotRunning} \cup Editing' \cup [at : {"delete"}, type : Type]]
    BY <1>2, <1>6, <2>2
  <2>4. salts' \in Nat /\ DOMAIN confirmed' = Type
    BY <1>1, <1>2 DEF IInv, Types
  <2> QED BY <1>1, <1>2, <1>3, <2>1, <2>3, <2>4 DEF Types
<1>9. EntryOpens'
  <2> SUFFICES ASSUME NEW t \in Type, store'[t] # None
               PROVE  \E p \in confirmed[t] : \A s \in Secrets(t) :
                        store'[t].secrets[s] = Encrypt(store'[t].salt, p)
    BY <1>2 DEF EntryOpens
  <2>1. CASE t = config.type
    BY <1>1, <1>3, <2>1
  <2>2. CASE t # config.type
    BY <1>3, <2>2 DEF IInv, EntryOpens
  <2> QED BY <2>1, <2>2
<1>10. PromptsSound' /\ FoundSound'
  BY <1>2, <1>7, Distinct DEF IInv, PromptsSound, FoundSound
<1>11. ReadSound'
  <2> SUFFICES ASSUME NEW d \in Command, commands'[d].at = "prompts",
                      store'[commands'[d].type] # None,
                      commands'[d].salt = store'[commands'[d].type].salt
               PROVE  commands'[d].factory = store'[commands'[d].type].factory
    BY DEF ReadSound
  <2>1. d # c /\ commands'[d] = commands[d]
    BY <1>7, Distinct
  <2>2. commands[d].type \in Type /\ commands[d].salt \in 0 .. salts
    BY <1>6, <2>1, Distinct DEF Editing
  <2>3. commands[d].salt # salts + 1 /\ entry.salt = salts + 1
    BY <1>1, <2>2
  <2>4. commands[d].type # config.type
    BY <1>3, <2>1, <2>3
  <2> QED BY <1>3, <2>1, <2>2, <2>4 DEF IInv, ReadSound
<1> QED BY <1>8, <1>9, <1>10, <1>11 DEF IInv

LEMMA DeleteKeeps == ASSUME IInv, NEW c \in Command, Delete(c) PROVE IInv'
<1>1. /\ commands \in [Command -> {NotRunning} \cup Editing \cup [at : {"delete"}, type : Type]]
      /\ commands[c].at = "delete" /\ DOMAIN store = Type
  BY DEF Delete, IInv, Types
<1>2. commands[c].type \in Type
  BY <1>1, Distinct DEF Editing
<1>3. /\ store' = [store EXCEPT ![commands[c].type] = None]
      /\ commands' = [commands EXCEPT ![c] = NotRunning]
      /\ UNCHANGED <<salts, package, confirmed>>
  BY DEF Delete, Goto
<1>4. /\ DOMAIN store' = Type
      /\ \A t \in Type : store'[t] = None \/ store'[t] = store[t]
  BY <1>1, <1>3
<1>5. /\ commands' \in [Command -> {NotRunning} \cup Editing \cup [at : {"delete"}, type : Type]]
      /\ commands'[c] = NotRunning /\ \A d \in Command : d # c => commands'[d] = commands[d]
  BY <1>1, <1>3
<1>6. Types'
  <2>1. Editing' = Editing /\ \A t \in Type : Entry(t)' = Entry(t)
    BY <1>3 DEF Editing, Entry
  <2> QED BY <1>3, <1>4, <1>5, <2>1 DEF IInv, Types
<1>7. EntryOpens'
  BY <1>3, <1>4 DEF IInv, EntryOpens
<1>8. PromptsSound' /\ FoundSound'
  BY <1>3, <1>5, Distinct DEF IInv, PromptsSound, FoundSound
<1>9. ReadSound'
  <2> SUFFICES ASSUME NEW d \in Command, commands'[d].at = "prompts",
                      store'[commands'[d].type] # None,
                      commands'[d].salt = store'[commands'[d].type].salt
               PROVE  commands'[d].factory = store'[commands'[d].type].factory
    BY DEF ReadSound
  <2>1. d # c /\ commands'[d] = commands[d]
    BY <1>5, Distinct
  <2>2. commands[d].type \in Type
    BY <1>1, <2>1, Distinct DEF Editing
  <2> QED BY <1>4, <2>1, <2>2 DEF IInv, ReadSound
<1> QED BY <1>6, <1>7, <1>8, <1>9 DEF IInv

LEMMA InstallKeeps == ASSUME IInv, Install PROVE IInv'
<1>1. /\ package \in 1 .. MaxPackages /\ package < MaxPackages /\ package' = package + 1
      /\ UNCHANGED <<store, commands, salts, confirmed>>
  BY DEF Install, IInv, Types
<1>2. /\ package' \in 1 .. MaxPackages /\ 1 .. package \subseteq 1 .. package'
      /\ 0 .. package \subseteq 0 .. package'
  BY <1>1, StoreSizes
<1>3. Editing \subseteq Editing' /\ \A t \in Type : Entry(t) \subseteq Entry(t)'
  BY <1>1, <1>2 DEF Editing, Entry
<1>4. commands' \in [Command -> {NotRunning} \cup Editing' \cup [at : {"delete"}, type : Type]]
  BY <1>1, <1>3 DEF IInv, Types
<1>5. Types'
  BY <1>1, <1>2, <1>3, <1>4 DEF IInv, Types
<1>6. EntryOpens' /\ FoundSound' /\ ReadSound'
  BY <1>1 DEF IInv, EntryOpens, FoundSound, ReadSound
<1>7. PromptsSound'
  BY <1>1, <1>2 DEF IInv, PromptsSound
<1> QED BY <1>5, <1>6, <1>7 DEF IInv

-----------------------------------------------------------------------------
(* The theorems                                                            *)

LEMMA StepKeeps == ASSUME IInv, [StoreNext]_storeVars PROVE IInv'
<1>1. CASE StoreNext
  <2>1. ASSUME NEW c \in Command, CommandStep(c) PROVE IInv'
    BY <2>1, InitCommandKeeps, ConfirmKeeps, WriteKeeps, CancelKeeps, DeleteCommandKeeps,
       DeleteKeeps DEF CommandStep
  <2> QED BY <1>1, <2>1, InstallKeeps DEF StoreNext
<1>2. CASE UNCHANGED storeVars
  BY <1>2 DEF storeVars, IInv, Types, Editing, Entry, EntryOpens, PromptsSound, ReadSound, FoundSound
<1> QED BY <1>1, <1>2

THEOREM InductiveInvariant == StoreSpec => []IInv
<1>1. StoreInit => IInv
  BY InitHolds
<1>2. IInv /\ [StoreNext]_storeVars => IInv'
  BY StepKeeps
<1> QED BY <1>1, <1>2, PTL DEF StoreSpec

\* The types: an entry has all its secrets, a salt that was drawn, and a factory.
THEOREM StoreTypeCorrect == StoreSpec => []StoreTypeOK
<1>1. IInv => StoreTypeOK
  BY DEF IInv, Types, StoreTypeOK, Entry
<1> QED BY <1>1, InductiveInvariant, PTL

\* Any number of commands, cancelled or overtaken in any prompt, leave an entry that one
\* password opens as a whole, and it was typed twice.
THEOREM EntryAlwaysOpens == StoreSpec => []EntryOpens
<1>1. IInv => EntryOpens
  BY DEF IInv
<1> QED BY <1>1, InductiveInvariant, PTL

\* An entry that is replaced by a command that has read it keeps its factory, whatever
\* package is installed by then.
THEOREM FactoryStaysPinned == StoreSpec => FactoryPinned
<1> DEFINE Pinned ==
      \A c \in Command, t \in Type :
        commands[c].at = "prompts" /\ commands[c].type = t /\ store[t] # None
        /\ commands[c].salt = store[t].salt /\ commands'[c] = NotRunning
        /\ store'[t] # store[t] /\ store'[t] # None
          => store'[t].factory = store[t].factory
<1>1. IInv /\ [StoreNext]_storeVars => [Pinned]_storeVars
  <2> SUFFICES ASSUME IInv, StoreNext PROVE Pinned
    OBVIOUS
  <2> SUFFICES ASSUME NEW c \in Command, NEW t \in Type,
                      commands[c].at = "prompts", commands[c].type = t, store[t] # None,
                      commands[c].salt = store[t].salt, commands'[c] = NotRunning,
                      store'[t] # store[t], store'[t] # None
               PROVE  store'[t].factory = store[t].factory
    OBVIOUS
  <2>1. /\ commands \in [Command -> {NotRunning} \cup Editing \cup [at : {"delete"}, type : Type]]
        /\ DOMAIN store = Type
    BY DEF IInv, Types
  <2>2. PICK d \in Command : Write(d) \/ Delete(d)
    BY DEF StoreNext, CommandStep, Install, InitCommand, Confirm, Cancel, DeleteCommand
  <2>3. d = c
    BY <2>1, <2>2, Distinct DEF Write, Delete, Goto
  <2>4. store'[t].factory = commands[c].factory
    BY <2>1, <2>2, <2>3 DEF Write, Delete, Factory
  <2> QED BY <2>4 DEF IInv, ReadSound
<1> QED BY <1>1, InductiveInvariant, PTL DEF StoreSpec, FactoryPinned
=============================================================================
