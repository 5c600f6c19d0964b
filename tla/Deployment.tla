----------------------------- MODULE Deployment -----------------------------
(***************************************************************************)
(* The deployment script (scripts/deploy.ts) and the chain it deploys to.  *)
(* The script reads config/<chainId>.json, deploys what is missing or was  *)
(* built anew, and writes the file when it is through. It may die in any   *)
(* of its awaits; the transactions for the Poseidon hashers are sent and   *)
(* not waited for; a local chain may be started again, empty, under a file *)
(* of before, and its addresses begin anew.                                *)
(***************************************************************************)
EXTENDS Naturals, Sequences

CONSTANTS
  MaxRuns,          \* bound on how often the script is run
  MaxBuild,         \* the sources of a contract have builds 1 .. MaxBuild
  MaxRebuilds,      \* bound on how often a source is built again
  MaxResets         \* bound on how often the chain is started again

ASSUME DeploymentSizes == {MaxRuns, MaxBuild, MaxRebuilds, MaxResets} \subseteq Nat

Hasher == {"PoseidonT3", "PoseidonT2"}
Contract == {"greeter", "verifier", "merkle", "factory"}
Chain == {"hardhat", "local", "public"}
NoHash == [build |-> 0, merkle |-> 0]
Nowhere == [address |-> 0, hash |-> NoHash]
NoFile == [c \in Contract |-> Nowhere]

VARIABLES
  chain,            \* the kind of chain the script is run for
  code,             \* contracts the deployer created: nonce -> what is there
  nonce,            \* transactions of the deployer that are mined
  pending,          \* transactions of the deployer that are not
  known,            \* contracts with code at their well-known addresses
  keyless,          \* proxy.tx: "unsent", "sent" or "mined"
  build,            \* the build of each contract in artifacts/
  rebuilds,         \* how often one was built anew
  file,             \* config/<chainId>.json: the contracts in it
  bundlerUrl,       \* whether a bundler url was put into it
  runs,             \* how often it was run
  script,           \* the running script: where it is, its copy of the file
  resets,           \* how often the chain was started again
  trust             \* history: may the file be believed

chainVars == <<chain, code, nonce, pending, known, keyless, resets>>
rest == <<build, rebuilds, file, bundlerUrl, runs>>
vars == <<chainVars, rest, script, trust>>

Idle == [at |-> "idle", await |-> 0, config |-> NoFile, sawProxy |-> FALSE]

-----------------------------------------------------------------------------
(* The chain                                                               *)

\* The chains of one's own mine every transaction as it comes.
Settled == chain = "public" \/ (pending = <<>> /\ keyless # "sent")

Send(tx) == pending' = Append(pending, tx)

\* The oldest transaction of the deployer is mined. A hasher sent before the proxy
\* had code has the gas of a plain transfer: it may fail even if the proxy is there.
Mine ==
  /\ pending # <<>>
  /\ pending' = Tail(pending) /\ nonce' = nonce + 1
  /\ LET tx == Head(pending) IN
       /\ code' = IF tx.what \in Contract
                  THEN [n \in DOMAIN code \cup {nonce + 1} |->
                          IF n = nonce + 1 THEN tx ELSE code[n]]
                  ELSE code
       /\ keyless' = IF tx.what = "fund" /\ keyless = "unsent" THEN "funded" ELSE keyless
       /\ \/ known' = known \cup (IF tx.what = "entrypoint" \/
                                     (tx.what \in Hasher /\ "proxy" \in known)
                                  THEN {tx.what} ELSE {})
          \/ tx.what \in Hasher /\ ~ tx.afterProxy /\ known' = known
  /\ UNCHANGED <<chain, resets, rest, script, trust>>

\* The presigned transaction that creates the proxy is mined.
MineProxy ==
  /\ keyless = "sent"
  /\ keyless' = "mined" /\ known' = known \cup {"proxy"}
  /\ UNCHANGED <<chain, code, nonce, pending, resets, rest, script, trust>>

-----------------------------------------------------------------------------
(* The script                                                              *)

\* deployAll calls these one after the other.
After ==
  [entrypoint |-> "bundler", bundler |-> "greeter", greeter |-> "proxy", proxy |-> "proxyTx",
   proxyTx |-> "PoseidonT3", PoseidonT3 |-> "PoseidonT2", PoseidonT2 |-> "verifier",
   verifier |-> "merkle", merkle |-> "factory", factory |-> "write"]

At(step) == Settled /\ script.at = step /\ script.await = 0

GotoNext == script' = [script EXCEPT !.at = After[@]]

StopScript ==
  /\ script' = Idle
  /\ trust' = IF trust = "after reset" THEN "lost" ELSE trust

scriptUnchanged == <<chainVars, rest>>

Start ==
  /\ Settled /\ script = Idle /\ runs < MaxRuns /\ runs' = runs + 1
  /\ script' = [at |-> "entrypoint", await |-> 0, config |-> file, sawProxy |-> FALSE]
  /\ UNCHANGED <<chainVars, build, rebuilds, file, bundlerUrl, trust>>

\* The script throws, or is interrupted, in one of its awaits.
Dies == Settled /\ script # Idle /\ StopScript /\ UNCHANGED scriptUnchanged

DeployEntryPoint ==
  /\ At("entrypoint")
  /\ \/ /\ "entrypoint" \in known
        /\ GotoNext /\ UNCHANGED <<scriptUnchanged, trust>>
     \/ /\ "entrypoint" \notin known /\ chain = "public"
        /\ StopScript /\ UNCHANGED scriptUnchanged
     \/ /\ "entrypoint" \notin known /\ chain # "public"
        /\ Send([what |-> "entrypoint"])
        /\ script' = [script EXCEPT !.await = nonce + Len(pending) + 1]
        /\ UNCHANGED <<chain, code, nonce, known, keyless, resets, rest, trust>>

DeployBundler ==
  /\ At("bundler")
  /\ IF chain = "hardhat" \/ bundlerUrl
     THEN GotoNext /\ UNCHANGED trust ELSE StopScript
  /\ UNCHANGED scriptUnchanged

\* deployPoseidon: the proxy is funded, then created. Nothing of it is waited for.
FundProxy ==
  /\ At("proxy")
  /\ IF "proxy" \in known
     THEN /\ script' = [script EXCEPT !.at = "PoseidonT3", !.sawProxy = TRUE]
          /\ UNCHANGED pending
     ELSE GotoNext /\ Send([what |-> "fund"])
  /\ UNCHANGED <<chain, code, nonce, known, keyless, resets, rest, trust>>

\* The provider refuses it when the funds have not arrived, or when it has it.
SendProxy ==
  /\ At("proxyTx")
  /\ IF keyless = "funded"
     THEN keyless' = "sent" /\ GotoNext /\ UNCHANGED trust
     ELSE StopScript /\ UNCHANGED keyless
  /\ UNCHANGED <<chain, code, nonce, pending, known, resets, rest>>

\* Mutant of SendHasher: only a proxy that is new gets hashers.
SendHasherToNewProxy(h) ==
  /\ At(h) /\ GotoNext
  /\ IF h \in known \/ "proxy" \in known THEN UNCHANGED pending
     ELSE Send([what |-> h, afterProxy |-> FALSE])
  /\ UNCHANGED <<chain, code, nonce, known, keyless, resets, rest, trust>>

SendHasher(h) ==
  /\ At(h) /\ GotoNext
  /\ IF h \in known THEN UNCHANGED pending
     ELSE Send([what |-> h, afterProxy |-> "proxy" \in known])
  /\ UNCHANGED <<chain, code, nonce, known, keyless, resets, rest, trust>>

\* Mutant of Hash: the bytecode is taken before it is linked.
UnlinkedHash(c, config) == [build |-> build[c], merkle |-> 0]

\* The sha256 of the bytecode. That of the factory has the address of MerkleTree in
\* it, not the arguments of its constructor.
Hash(c, config) ==
  [build |-> build[c], merkle |-> IF c = "factory" THEN config.merkle.address ELSE 0]

\* Mutant of IsDeployed: the code at the recorded address is not looked at.
IsRecorded(c, config) == config[c].hash = Hash(c, config)

\* checkDeployed
IsDeployed(c, config) ==
  config[c].hash = Hash(c, config) /\ config[c].address \in DOMAIN code

\* What the code is linked with and constructed with.
Uses(c) ==
  IF c = "factory"
  THEN [merkle |-> script.config.merkle.address, verifier |-> script.config.verifier.address]
  ELSE [merkle |-> 0, verifier |-> 0]

\* deployGreeter, deployVerifier, deployMerkleTree, deployZkTeamFactory
Deploy(c) ==
  /\ At(c)
  /\ IF IsDeployed(c, script.config)
     THEN GotoNext /\ UNCHANGED pending
     ELSE /\ Send([what |-> c, hash |-> Hash(c, script.config), uses |-> Uses(c)])
          /\ script' = [script EXCEPT !.await = nonce + Len(pending) + 1]
  /\ UNCHANGED <<chain, code, nonce, known, keyless, resets, rest, trust>>

\* Mutant of Deployed: only the hash is put down.
HashOnly(c) ==
  IF c \in Contract THEN [script.config EXCEPT ![c].hash = code[script.await].hash]
  ELSE script.config

\* config.greeter = { address, hash } and so on
Deployed(c) ==
  IF c \in Contract
  THEN [script.config EXCEPT ![c] = [address |-> script.await, hash |-> code[script.await].hash]]
  ELSE script.config

\* Mutant of IsMined: one transaction more is waited for.
IsConfirmed == script.await \in 1 .. nonce - 1

IsMined == script.await \in 1 .. nonce

\* deployed() returns when the transaction is mined.
Awaited ==
  /\ Settled /\ script # Idle /\ IsMined
  /\ script' = [script EXCEPT !.at = After[@], !.await = 0, !.config = Deployed(script.at)]
  /\ UNCHANGED <<scriptUnchanged, trust>>

WriteFile ==
  /\ At("write")
  /\ file' = IF chain = "hardhat" THEN file ELSE script.config
  /\ script' = Idle
  /\ trust' = IF trust = "after reset" /\ chain # "hardhat" THEN "yes" ELSE trust
  /\ UNCHANGED <<chainVars, build, rebuilds, bundlerUrl, runs>>

-----------------------------------------------------------------------------
(* The developers                                                          *)

\* The sources change, or change back, and are compiled.
Rebuild(c, b) ==
  /\ Settled /\ rebuilds < MaxRebuilds /\ b # build[c]
  /\ build' = [build EXCEPT ![c] = b] /\ rebuilds' = rebuilds + 1
  /\ UNCHANGED <<chainVars, file, bundlerUrl, runs, script, trust>>

\* A chain of one's own is started again; a script that runs loses its provider.
Reset ==
  /\ Settled /\ chain # "public" /\ resets < MaxResets
  /\ resets' = resets + 1
  /\ code' = <<>> /\ nonce' = 0 /\ pending' = <<>> /\ known' = {} /\ keyless' = "unsent"
  /\ script' = Idle /\ trust' = "after reset"
  /\ UNCHANGED <<chain, rest>>

-----------------------------------------------------------------------------
Init ==
  /\ chain \in Chain
  /\ known \in IF chain = "public" THEN SUBSET {"entrypoint", "proxy"} ELSE {{}}
  /\ code = <<>> /\ nonce = 0 /\ pending = <<>> /\ resets = 0
  /\ keyless = IF "proxy" \in known THEN "mined" ELSE "unsent"
  /\ build = [c \in Contract |-> 1] /\ rebuilds = 0 /\ runs = 0
  /\ file = NoFile /\ bundlerUrl \in BOOLEAN
  /\ script = Idle /\ trust = "yes"

ScriptStep ==
  \/ DeployEntryPoint \/ DeployBundler
  \/ FundProxy \/ SendProxy \/ \E h \in Hasher : SendHasher(h)
  \/ \E c \in Contract : Deploy(c)
  \/ Awaited \/ WriteFile

Next ==
  \/ Mine \/ MineProxy
  \/ Start \/ ScriptStep \/ Dies
  \/ \E c \in Contract, b \in 1 .. MaxBuild : Rebuild(c, b)
  \/ Reset

\* Blocks are mined, and the script goes on.
Spec ==
  Init /\ [][Next]_vars /\ WF_vars(Mine) /\ WF_vars(MineProxy) /\ WF_vars(ScriptStep)

-----------------------------------------------------------------------------
(* Properties                                                              *)

Bytecode == [build : Nat, merkle : Nat]
Entries == [Contract -> [address : Nat, hash : Bytecode]]
Creation == [what : Contract, hash : Bytecode, uses : [merkle : Nat, verifier : Nat]]
Tx == [what : {"entrypoint", "fund"}] \cup [what : Hasher, afterProxy : BOOLEAN] \cup Creation

\* Every variable has its type; an entry of the file has an address and a hash or
\* neither, and no contract is ahead of the transactions of the deployer.
TypeOK ==
  /\ chain \in Chain /\ nonce \in Nat /\ pending \in Seq(Tx) /\ resets \in Nat
  /\ code \in [DOMAIN code -> Creation] /\ DOMAIN code \subseteq 1 .. nonce
  /\ known \subseteq Hasher \cup {"entrypoint", "proxy"}
  /\ keyless \in {"unsent", "funded", "sent", "mined"}
  /\ build \in [Contract -> Nat \ {0}] /\ rebuilds \in Nat /\ runs \in Nat
  /\ file \in Entries /\ bundlerUrl \in BOOLEAN
  /\ script \in [at : {"idle", "write"} \cup DOMAIN After, await : Nat,
                 config : Entries, sawProxy : BOOLEAN]
  /\ script.await <= nonce + Len(pending)
  /\ trust \in {"yes", "after reset", "lost"}
  /\ \A c \in Contract : (file[c].address = 0) <=> (file[c].hash = NoHash)

\* What the file says of a contract is true of the chain: whenever a script dies,
\* and after a new start of the chain once a run has come through undisturbed.
FileTruthful ==
  trust = "yes" => \A c \in Contract : file[c] # Nowhere =>
    /\ file[c].address \in DOMAIN code
    /\ code[file[c].address].what = c /\ code[file[c].address].hash = file[c].hash

\* The factory of the file was linked with the MerkleTree of the file and checks
\* proofs with a verifier that is there, maybe not the one of the file. (Whether the
\* hashers MerkleTree is linked with are there is the question of HashersArrive.)
FactoryWorks ==
  trust = "yes" /\ file.factory # Nowhere =>
    LET factory == code[file.factory.address] IN
      /\ factory.uses.merkle = file.merkle.address
      /\ factory.uses.verifier \in DOMAIN code /\ code[factory.uses.verifier].what = "verifier"

\* A run that finds the proxy on the chain brings the hashers there, even if it dies
\* afterwards or another run is started before they are mined.
HashersArrive ==
  \A r \in 0 .. MaxResets :
    script # Idle /\ script.at = "verifier" /\ script.sawProxy /\ resets = r
      ~> Hasher \subseteq known \/ resets > r

\* A run ends: no transaction it waits for stays away.
ScriptEnds == script # Idle ~> script = Idle
=============================================================================
