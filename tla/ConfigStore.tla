---------------------------- MODULE ConfigStore ----------------------------
(***************************************************************************)
(* The configuration of the command line tools (cli/config.mjs): one entry *)
(* per tool in a file of the user's computer, with secrets encrypted under *)
(* a password. A first init takes the addresses of the contracts from the  *)
(* package, a later one keeps those of the entry. Every prompt is an await *)
(* at which the user may give up, and another command may run meanwhile.   *)
(***************************************************************************)
EXTENDS Naturals, FiniteSets

CONSTANTS
  Command,          \* the commands that may run at a time
  Password,         \* what may be typed: the password and its misspellings
  MaxWrites,        \* bound on the entries written
  MaxPackages       \* bound on the versions of the package

ASSUME StoreSizes == MaxWrites \in Nat /\ MaxPackages \in Nat \ {0}

Type == {"admin", "user"}
Secrets(t) == IF t = "admin" THEN {"privkey", "mnemonic"} ELSE {"privkey"}

VARIABLES
  store,            \* the entry of each tool
  commands,         \* where the commands are, and their config
  salts,            \* the salts drawn so far
  package,          \* the factory in config/11155111.json of the package
  confirmed         \* history: the passwords that were typed twice, per tool

storeVars == <<store, commands, salts, package, confirmed>>

None == [at |-> "none"]
NotRunning == [at |-> "idle"]

\* encryptData, under the key derived from password and salt.
Encrypt(salt, password) == [salt |-> salt, password |-> password]

\* Mutant of Opens: the cipher does not authenticate.
OpensAlways(sealed, salt, password) == TRUE

\* decryptData throws unless salt and password are those of the encryption.
Opens(sealed, salt, password) == sealed = Encrypt(salt, password)

Goto(c, state) == commands' = [commands EXCEPT ![c] = state]

-----------------------------------------------------------------------------
\* getAdminConfigProtected, getUserConfigProtected: the store is read when the
\* password has been typed.
Unlocked(t, password) ==
  \A s \in Secrets(t) : Opens(store[t].secrets[s], store[t].salt, password)

\* No entry yet: setConfig has the password typed again.
Found(t, password) ==
  [at |-> "confirm", type |-> t, password |-> password, salt |-> 0, factory |-> 0]

InitCommand(c, t, password) ==
  /\ commands[c] = NotRunning
  /\ \/ store[t] = None /\ Goto(c, Found(t, password))
     \/ /\ store[t] # None /\ Unlocked(t, password)
        /\ Goto(c, [at |-> "prompts", type |-> t, password |-> password,
                    salt |-> store[t].salt, factory |-> store[t].factory])
  /\ UNCHANGED <<store, salts, package, confirmed>>

\* Mutant of Confirm: the defaults are not merged.
ConfirmOnly(c) ==
  /\ commands[c].at = "confirm"
  /\ Goto(c, [commands[c] EXCEPT !.at = "prompts"])
  /\ confirmed' = [confirmed EXCEPT ![commands[c].type] = @ \cup {commands[c].password}]
  /\ UNCHANGED <<store, salts, package>>

\* The password is typed again, then the file of the package gives the defaults.
Confirm(c) ==
  /\ commands[c].at = "confirm"
  /\ Goto(c, [commands[c] EXCEPT !.at = "prompts", !.factory = package])
  /\ confirmed' = [confirmed EXCEPT ![commands[c].type] = @ \cup {commands[c].password}]
  /\ UNCHANGED <<store, salts, package>>

SealedWith(config, salt) == Encrypt(salt, config.password)

\* Mutant of Factory: the defaults of the package win.
FactoryOfPackage(config) == package

Factory(config) == config.factory

\* setAdminConfig, setUserConfig: the prompts are answered and the entry replaced.
Write(c) ==
  /\ commands[c].at = "prompts" /\ salts < MaxWrites
  /\ salts' = salts + 1
  /\ LET config == commands[c] IN
       store' = [store EXCEPT ![config.type] =
         [at |-> "entry", salt |-> salts + 1, factory |-> Factory(config),
          secrets |-> [s \in Secrets(config.type) |-> SealedWith(config, salts + 1)]]]
  /\ Goto(c, NotRunning)
  /\ UNCHANGED <<package, confirmed>>

\* A prompt is cancelled, and the process exits.
Cancel(c) ==
  /\ commands[c] # NotRunning
  /\ Goto(c, NotRunning)
  /\ UNCHANGED <<store, salts, package, confirmed>>

DeleteCommand(c, t) ==
  /\ commands[c] = NotRunning
  /\ Goto(c, [at |-> "delete", type |-> t])
  /\ UNCHANGED <<store, salts, package, confirmed>>

Delete(c) ==
  /\ commands[c].at = "delete"
  /\ store' = [store EXCEPT ![commands[c].type] = None]
  /\ Goto(c, NotRunning)
  /\ UNCHANGED <<salts, package, confirmed>>

\* The tools are installed again, with the addresses of a later deployment.
Install ==
  /\ package < MaxPackages
  /\ package' = package + 1
  /\ UNCHANGED <<store, commands, salts, confirmed>>

-----------------------------------------------------------------------------
StoreInit ==
  /\ store = [t \in Type |-> None]
  /\ commands = [c \in Command |-> NotRunning]
  /\ salts = 0 /\ package = 1
  /\ confirmed = [t \in Type |-> {}]

CommandStep(c) ==
  \/ \E t \in Type, password \in Password : InitCommand(c, t, password)
  \/ Confirm(c) \/ Write(c) \/ Cancel(c)
  \/ \E t \in Type : DeleteCommand(c, t)
  \/ Delete(c)

StoreNext == Install \/ \E c \in Command : CommandStep(c)

StoreSpec == StoreInit /\ [][StoreNext]_storeVars

-----------------------------------------------------------------------------
(* Properties                                                              *)

\* Every variable has its type: an entry has all its secrets and a factory.
StoreTypeOK ==
  /\ \A t \in Type : store[t] = None \/
       (/\ store[t].salt \in 1 .. salts /\ DOMAIN store[t].secrets = Secrets(t)
        /\ store[t].factory \in 1 .. package)
  /\ package \in 1 .. MaxPackages

\* Whatever commands ran side by side, one password opens the whole entry, and it is
\* one that was typed twice: a misspelling never locks the user out of its keys.
EntryOpens ==
  \A t \in Type : store[t] # None => \E p \in confirmed[t] : \A s \in Secrets(t) :
    store[t].secrets[s] = Encrypt(store[t].salt, p)

\* A command that replaces the entry it has read keeps the factory of it, whatever
\* package is installed by then: the accounts of the admin are those of one factory.
FactoryPinned ==
  [][\A c \in Command, t \in Type :
       commands[c].at = "prompts" /\ commands[c].type = t /\ store[t] # None
       /\ commands[c].salt = store[t].salt /\ commands'[c] = NotRunning /\ store'[t] # store[t] /\ store'[t] # None
         => store'[t].factory = store[t].factory]_storeVars
=============================================================================
