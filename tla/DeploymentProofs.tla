-------------------------- MODULE DeploymentProofs --------------------------
(***************************************************************************)
(* Proofs about Deployment, for any number of runs, builds, rebuilds and   *)
(* new starts of the chain: the types, and that the file of the script is  *)
(* true and its factory works whenever nothing has made it doubtful.       *)
(***************************************************************************)
EXTENDS Deployment, SequenceTheorems, TLAPS

-----------------------------------------------------------------------------
(* The inductive invariant                                                 *)

Step == {"idle", "write"} \cup DOMAIN After

Types ==
  /\ chain \in Chain /\ nonce \in Nat /\ pending \in Seq(Tx) /\ resets \in Nat
  /\ code \in [DOMAIN code -> Creation] /\ DOMAIN code \subseteq 1 .. nonce
  /\ known \subseteq Hasher \cup {"entrypoint", "proxy"}
  /\ keyless \in {"unsent", "funded", "sent", "mined"}
  /\ build \in [Contract -> Nat \ {0}] /\ rebuilds \in Nat /\ runs \in Nat
  /\ file \in Entries /\ bundlerUrl \in BOOLEAN
  /\ script \in [at : Step, await : Nat, config : Entries, sawProxy : BOOLEAN]
  /\ script.await <= nonce + Len(pending)
  /\ trust \in {"yes", "after reset", "lost"}

Whole(cfg) == \A c \in Contract : (cfg[c].address = 0) <=> (cfg[c].hash = NoHash)

\* A creation of contract c as the script with config cfg sends it.
Sound(tx) ==
  /\ tx.hash.build # 0
  /\ tx.what = "factory" => tx.uses.merkle = tx.hash.merkle

CreationsSound ==
  /\ \A n \in DOMAIN code : Sound(code[n])
  /\ \A k \in 1 .. Len(pending) : pending[k].what \in Contract => Sound(pending[k])

\* The creation the script waits for.
Expected(tx) ==
  tx.what = script.at
  /\ (tx.what = "factory" => tx.hash.merkle = script.config.merkle.address)

AwaitsCreation ==
  script.at \in Contract /\ script.await # 0 =>
    \/ script.await \in DOMAIN code /\ Expected(code[script.await])
    \/ /\ script.await > nonce
       /\ Expected(pending[script.await - nonce])

\* What the script has put into its copy of the file by the time it gets there.
Progress ==
  /\ script.at \in {"merkle", "factory", "write"} => script.config.verifier # Nowhere
  /\ script.at = "write" =>
       script.config.factory.hash.merkle = script.config.merkle.address

\* Only the EntryPoint and the contracts are waited for.
AwaitsInStep == script.await # 0 => script.at \in Contract \cup {"entrypoint"}

FileLinked == file.factory # Nowhere => file.factory.hash.merkle = file.merkle.address

IInv ==
  /\ Types /\ Whole(file) /\ Whole(script.config)
  /\ CreationsSound /\ AwaitsCreation /\ AwaitsInStep /\ Progress /\ FileLinked

-----------------------------------------------------------------------------
LEMMA AfterStep ==
  /\ DOMAIN After = {"entrypoint", "bundler", "greeter", "proxy", "proxyTx", "PoseidonT3",
                     "PoseidonT2", "verifier", "merkle", "factory"}
  /\ After["entrypoint"] = "bundler" /\ After["bundler"] = "greeter"
  /\ After["greeter"] = "proxy" /\ After["proxy"] = "proxyTx"
  /\ After["proxyTx"] = "PoseidonT3" /\ After["PoseidonT3"] = "PoseidonT2"
  /\ After["PoseidonT2"] = "verifier" /\ After["verifier"] = "merkle"
  /\ After["merkle"] = "factory" /\ After["factory"] = "write"
BY DEF After

LEMMA InitHolds == Init => IInv
<1> SUFFICES ASSUME Init PROVE IInv
  OBVIOUS
<1>0. NoFile \in Entries /\ Whole(NoFile)
  BY DEF NoFile, Entries, Nowhere, NoHash, Bytecode, Whole
<1>1. /\ script = Idle /\ Idle.at = "idle" /\ Idle.await = 0 /\ Idle.config = NoFile
      /\ Idle \in [at : Step, await : Nat, config : Entries, sawProxy : BOOLEAN]
  BY <1>0 DEF Init, Idle, Step
<1>2. Types
  BY <1>0, <1>1 DEF Init, Types, Chain, Contract
<1>3. CreationsSound
  BY DEF Init, CreationsSound
<1>4. AwaitsCreation /\ Progress
  BY <1>1 DEF AwaitsCreation, Progress, Contract
<1>5. FileLinked
  BY DEF Init, FileLinked, NoFile, Contract
<1>6. AwaitsInStep
  BY <1>1 DEF AwaitsInStep
<1> QED BY <1>0, <1>1, <1>2, <1>3, <1>4, <1>5, <1>6 DEF IInv, Init

\* What is sent comes last; what is mined comes first.
LEMMA AppendLast ==
  ASSUME NEW S, NEW s \in Seq(S), NEW e \in S
  PROVE  /\ Append(s, e) \in Seq(S) /\ Len(Append(s, e)) = Len(s) + 1 /\ Len(s) \in Nat
         /\ \A k \in 1 .. Len(s) : Append(s, e)[k] = s[k]
         /\ Append(s, e)[Len(s) + 1] = e
BY AppendProperties, LenProperties

LEMMA TailFirst ==
  ASSUME NEW S, NEW s \in Seq(S), s # <<>>
  PROVE  /\ Tail(s) \in Seq(S) /\ Len(Tail(s)) = Len(s) - 1 /\ Len(s) \in Nat \ {0}
         /\ \A k \in 1 .. Len(Tail(s)) : Tail(s)[k] = s[k + 1]
         /\ Head(s) \in S /\ Head(s) = s[1]
BY HeadTailProperties, LenProperties

\* The invariant survives a step that changes no contract and waits for none: the script
\* goes on, stops or starts, and a transaction is sent that creates no contract.
Quiet ==
  /\ UNCHANGED <<chain, code, nonce, file, bundlerUrl>>
  /\ resets' \in Nat /\ known' \subseteq Hasher \cup {"entrypoint", "proxy"}
  /\ keyless' \in {"unsent", "funded", "sent", "mined"}
  /\ build' \in [Contract -> Nat \ {0}] /\ rebuilds' \in Nat /\ runs' \in Nat
  /\ trust' \in {"yes", "after reset", "lost"}
  /\ UNCHANGED pending \/ \E tx \in Tx : tx.what \notin Contract /\ Send(tx)
  /\ script' \in [at : Step, await : Nat, config : Entries, sawProxy : BOOLEAN]
  /\ \/ script' = script
     \/ script'.await = 0
     \/ script'.at = "entrypoint" /\ script'.await <= nonce + Len(pending')
  /\ script'.config \in {script.config, file, NoFile}
  /\ Progress'

LEMMA QuietSends ==
  ASSUME IInv, Quiet
  PROVE  /\ pending \in Seq(Tx) /\ pending' \in Seq(Tx)
         /\ Len(pending) \in Nat /\ Len(pending') \in Nat /\ Len(pending') >= Len(pending)
         /\ \A k \in 1 .. Len(pending) : pending'[k] = pending[k]
         /\ \A k \in 1 .. Len(pending') :
              k \notin 1 .. Len(pending) => pending'[k].what \notin Contract
<1>0. pending \in Seq(Tx)
  BY DEF IInv, Types
<1>1. Len(pending) \in Nat
  BY <1>0, LenProperties
<1>2. CASE pending' = pending
  BY <1>0, <1>1, <1>2
<1>3. CASE \E tx \in Tx : tx.what \notin Contract /\ Send(tx)
  <2>1. PICK tx \in Tx : tx.what \notin Contract /\ pending' = Append(pending, tx)
    BY <1>3 DEF Send
  <2>2. /\ Append(pending, tx) \in Seq(Tx) /\ Len(Append(pending, tx)) = Len(pending) + 1
        /\ \A k \in 1 .. Len(pending) : Append(pending, tx)[k] = pending[k]
        /\ Append(pending, tx)[Len(pending) + 1] = tx
    BY <1>0, AppendLast
  <2> QED BY <1>0, <1>1, <2>1, <2>2
<1> QED BY <1>2, <1>3 DEF Quiet

LEMMA QuietStep ==
  ASSUME IInv, Quiet
  PROVE  IInv'
<1>0. nonce \in Nat /\ script.await \in Nat /\ script.await <= nonce + Len(pending)
  BY DEF IInv, Types
<1>2. script.config \in Entries /\ Whole(script.config) /\ Whole(NoFile)
  BY DEF IInv, Types, Whole, NoFile, Nowhere
<1>3. script'.await <= nonce + Len(pending')
  <2>1. Len(pending) \in Nat /\ Len(pending') \in Nat /\ Len(pending') >= Len(pending)
    BY QuietSends
  <2>2. nonce + Len(pending') >= nonce + Len(pending) /\ nonce + Len(pending') >= 0
    BY <1>0, <2>1
  <2>3. \/ script'.await = script.await \/ script'.await = 0
        \/ script'.await <= nonce + Len(pending')
    BY DEF Quiet
  <2>4. CASE script'.await = script.await
    BY <1>0, <2>1, <2>4
  <2> QED BY <2>2, <2>3, <2>4
<1>4. Types'
  BY <1>3, QuietSends DEF Quiet, IInv, Types
<1>5. Whole(file)' /\ Whole(script.config)'
  BY <1>2 DEF Quiet, IInv, Whole
<1>6. CreationsSound'
  BY QuietSends DEF Quiet, IInv, CreationsSound, Sound
<1>7. AwaitsCreation'
  <2>1. CASE script' = script
    <3>0. code' = code /\ nonce' = nonce /\ AwaitsCreation
      BY DEF Quiet, IInv
    <3>1. CASE script.await = 0 \/ script.at \notin Contract
      BY <2>1, <3>1 DEF AwaitsCreation
    <3>3. CASE script.await <= nonce /\ script.await # 0 /\ script.at \in Contract
      <4>1. script.await \in DOMAIN code /\ Expected(code[script.await])
        BY <1>0, <3>0, <3>3 DEF AwaitsCreation
      <4> QED BY <2>1, <3>0, <4>1 DEF AwaitsCreation, Expected
    <3>2. CASE script.await > nonce
      <4>1. script.await - nonce \in 1 .. Len(pending)
        BY <1>0, <3>2, QuietSends
      <4>2. pending'[script.await - nonce] = pending[script.await - nonce]
        BY <4>1, QuietSends
      <4> QED BY <2>1, <3>0, <4>2 DEF AwaitsCreation, Expected
    <3> QED BY <1>0, <3>1, <3>2, <3>3
  <2>2. CASE script'.await = 0 \/ script'.at = "entrypoint"
    BY <2>2 DEF AwaitsCreation, Contract
  <2> QED BY <2>1, <2>2 DEF Quiet
<1>8. AwaitsInStep'
  BY AfterStep DEF Quiet, IInv, AwaitsInStep
<1>9. FileLinked'
  BY DEF Quiet, IInv, FileLinked
<1> QED BY <1>4, <1>5, <1>6, <1>7, <1>8, <1>9 DEF Quiet, IInv

-----------------------------------------------------------------------------
(* The steps that change no contract                                       *)

LEMMA IdleTyped ==
  /\ Idle \in [at : Step, await : Nat, config : Entries, sawProxy : BOOLEAN]
  /\ Idle.at = "idle" /\ Idle.await = 0 /\ Idle.config = NoFile
BY DEF Idle, Step, NoFile, Entries, Nowhere, NoHash, Bytecode

\* The script stops, and the rest of the step is quiet.
LEMMA StopsQuietly ==
  ASSUME IInv, StopScript, scriptUnchanged' = scriptUnchanged
  PROVE  Quiet
<1>1. script' = Idle /\ trust' \in {"yes", "after reset", "lost"}
  BY DEF StopScript, IInv, Types
<1>2. Progress'
  BY <1>1, IdleTyped DEF Progress
<1> QED BY <1>1, <1>2, IdleTyped DEF Quiet, scriptUnchanged, chainVars, rest, IInv, Types

\* The script goes on after a step that is not the last before the file or about a
\* contract it needs, and may send a transaction that creates no contract.
LEMMA GoesOn ==
  ASSUME IInv, script.await = 0,
         script.at \in {"entrypoint", "bundler", "greeter", "proxy", "proxyTx", "PoseidonT3",
                        "PoseidonT2"},
         GotoNext, UNCHANGED <<chain, code, nonce, resets, rest, trust>>,
         known' = known, keyless' \in {"unsent", "funded", "sent", "mined"},
         UNCHANGED pending \/ \E tx \in Tx : tx.what \notin Contract /\ Send(tx)
  PROVE  Quiet
<1>1. script \in [at : Step, await : Nat, config : Entries, sawProxy : BOOLEAN]
  BY DEF IInv, Types
<1>2. /\ script' = [script EXCEPT !.at = After[script.at]]
      /\ After[script.at] \in Step /\ After[script.at] \notin {"merkle", "factory", "write"}
  BY AfterStep DEF GotoNext, Step
<1>3. /\ script' \in [at : Step, await : Nat, config : Entries, sawProxy : BOOLEAN]
      /\ script'.await = 0 /\ script'.config = script.config
      /\ script'.at \notin {"merkle", "factory", "write"}
  BY <1>1, <1>2
<1>4. Progress'
  BY <1>3 DEF Progress
<1> QED BY <1>3, <1>4 DEF Quiet, rest, IInv, Types

LEMMA StartQuiet == ASSUME IInv, Start PROVE Quiet
<1>0. file \in Entries /\ runs \in Nat
  BY DEF IInv, Types
<1>1. /\ script' = [at |-> "entrypoint", await |-> 0, config |-> file, sawProxy |-> FALSE]
      /\ file \in Entries /\ runs' \in Nat
  BY <1>0 DEF Start
<1>2. /\ script' \in [at : Step, await : Nat, config : Entries, sawProxy : BOOLEAN]
      /\ script'.at = "entrypoint" /\ script'.await = 0 /\ script'.config = file
  BY <1>1, AfterStep DEF Step
<1>3. Progress'
  BY <1>2 DEF Progress
<1> QED BY <1>1, <1>2, <1>3 DEF Start, Quiet, chainVars, IInv, Types

LEMMA DeployEntryPointQuiet == ASSUME IInv, DeployEntryPoint PROVE Quiet
<1>1. CASE GotoNext /\ UNCHANGED <<scriptUnchanged, trust>>
  BY <1>1, GoesOn DEF DeployEntryPoint, At, scriptUnchanged, chainVars, rest, IInv, Types
<1>2. CASE StopScript /\ UNCHANGED scriptUnchanged
  BY <1>2, StopsQuietly
<1>3. CASE /\ At("entrypoint") /\ Send([what |-> "entrypoint"])
           /\ script' = [script EXCEPT !.await = nonce + Len(pending) + 1]
           /\ UNCHANGED <<chain, code, nonce, known, keyless, resets, rest, trust>>
  <2>1. /\ script \in [at : Step, await : Nat, config : Entries, sawProxy : BOOLEAN]
        /\ script.at = "entrypoint" /\ nonce \in Nat /\ pending \in Seq(Tx)
    BY <1>3 DEF At, IInv, Types
  <2>2. [what |-> "entrypoint"] \in Tx /\ [what |-> "entrypoint"].what \notin Contract
    BY DEF Tx, Contract
  <2>3. /\ pending' = Append(pending, [what |-> "entrypoint"])
        /\ Len(pending) \in Nat /\ Len(pending') = Len(pending) + 1
    BY <1>3, <2>1, <2>2, AppendLast DEF Send
  <2>4. /\ script' \in [at : Step, await : Nat, config : Entries, sawProxy : BOOLEAN]
        /\ script'.at = "entrypoint" /\ script'.await = nonce + Len(pending')
        /\ script'.config = script.config
    <3>1. nonce + Len(pending) + 1 \in Nat /\ nonce + Len(pending) + 1 = nonce + Len(pending')
      BY <2>1, <2>3
    <3> QED BY <1>3, <2>1, <3>1
  <2>5. Progress'
    BY <2>4 DEF Progress
  <2>6. script'.await <= nonce + Len(pending')
    BY <2>1, <2>3, <2>4
  <2> QED BY <1>3, <2>2, <2>4, <2>5, <2>6 DEF Quiet, rest, IInv, Types
<1> QED BY <1>1, <1>2, <1>3 DEF DeployEntryPoint

LEMMA DeployBundlerQuiet == ASSUME IInv, DeployBundler PROVE Quiet
<1>1. CASE GotoNext /\ UNCHANGED trust
  BY <1>1, GoesOn DEF DeployBundler, At, scriptUnchanged, chainVars, rest, IInv, Types
<1>2. CASE StopScript
  BY <1>2, StopsQuietly DEF DeployBundler
<1> QED BY <1>1, <1>2 DEF DeployBundler

LEMMA FundProxyQuiet == ASSUME IInv, FundProxy PROVE Quiet
<1>1. CASE GotoNext /\ Send([what |-> "fund"])
  <2>1. [what |-> "fund"] \in Tx /\ [what |-> "fund"].what \notin Contract
    BY DEF Tx, Contract
  <2> QED BY <1>1, <2>1, GoesOn DEF FundProxy, At, rest, IInv, Types
<1>2. CASE /\ script' = [script EXCEPT !.at = "PoseidonT3", !.sawProxy = TRUE]
           /\ UNCHANGED pending
  <2>1. script \in [at : Step, await : Nat, config : Entries, sawProxy : BOOLEAN]
    BY DEF IInv, Types
  <2>2. /\ script' \in [at : Step, await : Nat, config : Entries, sawProxy : BOOLEAN]
        /\ script'.at = "PoseidonT3" /\ script'.await = 0 /\ script'.config = script.config
    BY <1>2, <2>1, AfterStep DEF FundProxy, At, Step
  <2>3. Progress'
    BY <2>2 DEF Progress
  <2> QED BY <1>2, <2>2, <2>3 DEF FundProxy, Quiet, rest, IInv, Types
<1> QED BY <1>1, <1>2 DEF FundProxy

LEMMA SendProxyQuiet == ASSUME IInv, SendProxy PROVE Quiet
<1>1. CASE keyless' = "sent" /\ GotoNext /\ UNCHANGED trust
  BY <1>1, GoesOn DEF SendProxy, At, rest, IInv, Types
<1>2. CASE StopScript /\ UNCHANGED keyless
  BY <1>2, StopsQuietly DEF SendProxy, scriptUnchanged, chainVars
<1> QED BY <1>1, <1>2 DEF SendProxy

LEMMA SendHasherQuiet == ASSUME IInv, NEW h \in Hasher, SendHasher(h) PROVE Quiet
<1>1. UNCHANGED pending \/ \E tx \in Tx : tx.what \notin Contract /\ Send(tx)
  <2>1. /\ [what |-> h, afterProxy |-> "proxy" \in known] \in Tx
        /\ [what |-> h, afterProxy |-> "proxy" \in known].what \notin Contract
    BY DEF Tx, Hasher, Contract
  <2> QED BY <2>1 DEF SendHasher
<1> QED BY <1>1, GoesOn DEF SendHasher, At, Hasher, rest, IInv, Types

LEMMA MineProxyQuiet == ASSUME IInv, MineProxy PROVE Quiet
<1>1. Progress'
  BY DEF MineProxy, rest, IInv, Progress
<1> QED BY <1>1 DEF MineProxy, Quiet, rest, IInv, Types

LEMMA RebuildQuiet ==
  ASSUME IInv, NEW c \in Contract, NEW b \in 1 .. MaxBuild, Rebuild(c, b)
  PROVE  Quiet
<1>1. b \in Nat \ {0}
  BY DeploymentSizes
<1>2. Progress' /\ script' = script
  BY DEF Rebuild, IInv, Progress
<1>3. build' \in [Contract -> Nat \ {0}] /\ rebuilds' \in Nat
  <2>1. build \in [Contract -> Nat \ {0}] /\ rebuilds \in Nat
    BY DEF IInv, Types
  <2>2. build' = [build EXCEPT ![c] = b] /\ rebuilds' = rebuilds + 1
    BY DEF Rebuild
  <2> QED BY <1>1, <2>1, <2>2
<1> QED BY <1>2, <1>3 DEF Rebuild, Quiet, chainVars, IInv, Types

LEMMA DiesQuiet == ASSUME IInv, Dies PROVE Quiet
BY StopsQuietly DEF Dies

\* A contract that is deployed already.
LEMMA SkipQuiet ==
  ASSUME IInv, NEW c \in Contract, Deploy(c), IsDeployed(c, script.config), GotoNext,
         UNCHANGED pending
  PROVE  Quiet
<1>0. /\ script \in [at : Step, await : Nat, config : Entries, sawProxy : BOOLEAN]
      /\ script.at = c /\ script.await = 0 /\ build \in [Contract -> Nat \ {0}]
      /\ UNCHANGED <<chain, code, nonce, known, keyless, resets, rest, trust>>
  BY DEF Deploy, At, IInv, Types
<1>1. /\ script' = [script EXCEPT !.at = After[c]] /\ After[c] \in Step
      /\ After[c] \in {"merkle", "factory", "write"} <=> c \in {"verifier", "merkle", "factory"}
      /\ After[c] = "write" => c = "factory"
  BY <1>0, AfterStep DEF GotoNext, Step, Contract
<1>2. /\ script' \in [at : Step, await : Nat, config : Entries, sawProxy : BOOLEAN]
      /\ script'.at = After[c] /\ script'.await = 0 /\ script'.config = script.config
  BY <1>0, <1>1
<1>3. script.config[c].hash = Hash(c, script.config)
  BY DEF IsDeployed
<1>4. c = "verifier" => script.config.verifier # Nowhere
  BY <1>0, <1>3 DEF Hash, Nowhere, NoHash
<1>5. c = "factory" => script.config.factory.hash.merkle = script.config.merkle.address
  BY <1>3 DEF Hash
<1>6. Progress'
  BY <1>0, <1>1, <1>2, <1>4, <1>5 DEF IInv, Progress
<1> QED BY <1>0, <1>2, <1>6 DEF Quiet, rest, IInv, Types

LEMMA StutterQuiet == ASSUME IInv, UNCHANGED vars PROVE Quiet
<1>1. /\ UNCHANGED <<chain, code, nonce, pending, known, keyless, resets>>
      /\ UNCHANGED <<build, rebuilds, file, bundlerUrl, runs, script, trust>>
  BY DEF vars, chainVars, rest
<1>2. Progress'
  BY <1>1 DEF IInv, Progress
<1> QED BY <1>1, <1>2 DEF Quiet, IInv, Types

-----------------------------------------------------------------------------
(* A transaction is mined                                                  *)

\* Contracts stay where they are, and the one created next is the oldest on its way.
LEMMA CodeGrows ==
  ASSUME IInv, Mine
  PROVE  /\ pending \in Seq(Tx) /\ pending' \in Seq(Tx) /\ nonce \in Nat /\ nonce' = nonce + 1
         /\ Len(pending) \in Nat \ {0} /\ Len(pending') = Len(pending) - 1
         /\ \A k \in 1 .. Len(pending') : pending'[k] = pending[k + 1]
         /\ code' \in [DOMAIN code' -> Creation] /\ DOMAIN code' \subseteq 1 .. nonce'
         /\ DOMAIN code \subseteq DOMAIN code'
         /\ \A n \in DOMAIN code : code'[n] = code[n]
         /\ \A n \in DOMAIN code' : n \notin DOMAIN code =>
              n = nonce + 1 /\ code'[n] = pending[1] /\ pending[1].what \in Contract
         /\ pending[1].what \in Contract =>
              nonce + 1 \in DOMAIN code' /\ code'[nonce + 1] = pending[1]
<1>1. /\ pending \in Seq(Tx) /\ nonce \in Nat
      /\ code \in [DOMAIN code -> Creation] /\ DOMAIN code \subseteq 1 .. nonce
  BY DEF IInv, Types
<1>2. /\ pending # <<>> /\ pending' = Tail(pending) /\ nonce' = nonce + 1
      /\ code' = IF Head(pending).what \in Contract
                 THEN [n \in DOMAIN code \cup {nonce + 1} |->
                         IF n = nonce + 1 THEN Head(pending) ELSE code[n]]
                 ELSE code
  BY DEF Mine
<1>3. /\ pending' \in Seq(Tx) /\ Len(pending') = Len(pending) - 1 /\ Len(pending) \in Nat \ {0}
      /\ \A k \in 1 .. Len(pending') : pending'[k] = pending[k + 1]
      /\ Head(pending) \in Tx /\ Head(pending) = pending[1]
  BY <1>1, <1>2, TailFirst
<1>4. pending[1].what \in Contract => pending[1] \in Creation
  BY <1>3 DEF Tx, Contract, Hasher
<1>5. nonce + 1 \notin DOMAIN code /\ 1 .. nonce \subseteq 1 .. (nonce + 1)
      /\ nonce + 1 \in 1 .. (nonce + 1)
  BY <1>1
<1>6. CASE pending[1].what \in Contract
  <2>1. code' = [n \in DOMAIN code \cup {nonce + 1} |->
                   IF n = nonce + 1 THEN pending[1] ELSE code[n]]
    BY <1>2, <1>3, <1>6
  <2>2. DOMAIN code' = DOMAIN code \cup {nonce + 1}
    BY <2>1
  <2>3. \A n \in DOMAIN code' :
          code'[n] = IF n = nonce + 1 THEN pending[1] ELSE code[n]
    BY <2>1
  <2>4. \A n \in DOMAIN code' : code'[n] \in Creation
    BY <1>1, <1>4, <1>6, <2>2, <2>3
  <2>5. code' \in [DOMAIN code' -> Creation]
    BY <2>1, <2>2, <2>4
  <2>6. DOMAIN code' \subseteq 1 .. nonce'
    BY <1>1, <1>2, <1>5, <2>2
  <2> QED BY <1>1, <1>2, <1>3, <1>5, <1>6, <2>2, <2>3, <2>5, <2>6
<1>7. CASE pending[1].what \notin Contract
  BY <1>1, <1>2, <1>3, <1>5, <1>7
<1> QED BY <1>6, <1>7

LEMMA MineKeeps == ASSUME IInv, Mine PROVE IInv'
<1>0. /\ UNCHANGED <<chain, resets, rest, script, trust>>
      /\ script.await \in Nat /\ script.await <= nonce + Len(pending)
      /\ Contract \cap (Hasher \cup {"entrypoint", "fund"}) = {}
  BY DEF Mine, IInv, Types, Contract, Hasher
<1>1. Types'
  <2>1. script.await <= nonce' + Len(pending')
    BY <1>0, CodeGrows
  <2>2. keyless' \in {"unsent", "funded", "sent", "mined"}
    BY DEF Mine, IInv, Types
  <2>3. known' \subseteq Hasher \cup {"entrypoint", "proxy"}
    BY DEF Mine, IInv, Types
  <2>4. nonce' \in Nat
    BY CodeGrows
  <2> QED BY <1>0, <2>1, <2>2, <2>3, <2>4, CodeGrows DEF rest, IInv, Types
<1>2. Whole(file)' /\ Whole(script.config)'
  BY <1>0 DEF rest, IInv, Whole
<1>3. CreationsSound'
  <2>1. \A n \in DOMAIN code' : Sound(code'[n])
    BY CodeGrows DEF IInv, CreationsSound
  <2>2. \A k \in 1 .. Len(pending') : pending'[k].what \in Contract => Sound(pending'[k])
    <3> SUFFICES ASSUME NEW k \in 1 .. Len(pending')
                 PROVE  pending'[k].what \in Contract => Sound(pending'[k])
      OBVIOUS
    <3>1. k + 1 \in 1 .. Len(pending) /\ pending'[k] = pending[k + 1]
      BY CodeGrows
    <3> QED BY <3>1 DEF IInv, CreationsSound
  <2> QED BY <2>1, <2>2 DEF CreationsSound, Sound
<1>4. AwaitsCreation'
  <2> SUFFICES ASSUME script.at \in Contract, script.await # 0
               PROVE  \/ script.await \in DOMAIN code' /\ Expected(code'[script.await])
                      \/ /\ script.await > nonce'
                         /\ Expected(pending'[script.await - nonce'])
    BY <1>0 DEF AwaitsCreation, Expected
  <2>1. CASE script.await \in DOMAIN code /\ Expected(code[script.await])
    BY <2>1, CodeGrows
  <2>2. CASE script.await > nonce /\ Expected(pending[script.await - nonce])
    <3>1. CASE script.await = nonce + 1
      <4>1. script.await - nonce = 1
        BY <3>1, CodeGrows
      <4>2. pending[1].what \in Contract
        BY <2>2, <4>1 DEF Expected
      <4> QED BY <2>2, <3>1, <4>1, <4>2, CodeGrows
    <3>2. CASE script.await # nonce + 1
      <4>1. /\ script.await > nonce' /\ script.await - nonce' \in 1 .. Len(pending')
            /\ script.await - nonce' + 1 = script.await - nonce
        BY <1>0, <2>2, <3>2, CodeGrows
      <4>2. pending'[script.await - nonce'] = pending[script.await - nonce]
        BY <4>1, CodeGrows
      <4> QED BY <2>2, <4>1, <4>2
    <3> QED BY <3>1, <3>2
  <2> QED BY <2>1, <2>2 DEF IInv, AwaitsCreation
<1>5. AwaitsInStep' /\ Progress' /\ FileLinked'
  BY <1>0 DEF rest, IInv, AwaitsInStep, Progress, FileLinked
<1> QED BY <1>1, <1>2, <1>3, <1>4, <1>5 DEF IInv

-----------------------------------------------------------------------------
(* A contract is deployed, the script gets it, and writes the file         *)

\* The creation of c, as the script sends it.
CreationOf(c) == [what |-> c, hash |-> Hash(c, script.config), uses |-> Uses(c)]

Creates(c) ==
  /\ Deploy(c) /\ Send(CreationOf(c))
  /\ script' = [script EXCEPT !.await = nonce + Len(pending) + 1]

LEMMA DeployCases ==
  ASSUME NEW c \in Contract, Deploy(c)
  PROVE  \/ IsDeployed(c, script.config) /\ GotoNext /\ UNCHANGED pending
         \/ Creates(c) /\ ~ IsDeployed(c, script.config)
BY DEF Deploy, Creates, CreationOf

LEMMA CreationSent ==
  ASSUME IInv, NEW c \in Contract, Creates(c)
  PROVE  /\ script.at = c /\ script.await = 0 /\ nonce \in Nat /\ pending \in Seq(Tx)
         /\ UNCHANGED <<chain, code, nonce, known, keyless, resets, rest, trust>>
         /\ CreationOf(c) \in Tx /\ CreationOf(c).what = c
         /\ Sound(CreationOf(c)) /\ Expected(CreationOf(c))
         /\ c = "factory" => CreationOf(c).uses.verifier = script.config.verifier.address
         /\ pending' \in Seq(Tx) /\ Len(pending') = Len(pending) + 1 /\ Len(pending) \in Nat
         /\ \A k \in 1 .. Len(pending) : pending'[k] = pending[k]
         /\ pending'[Len(pending) + 1] = CreationOf(c)
         /\ script' \in [at : Step, await : Nat, config : Entries, sawProxy : BOOLEAN]
         /\ script'.at = script.at /\ script'.config = script.config
         /\ script'.await = nonce + Len(pending) + 1
<1>0. /\ script \in [at : Step, await : Nat, config : Entries, sawProxy : BOOLEAN]
      /\ script.at = c /\ script.await = 0 /\ nonce \in Nat /\ pending \in Seq(Tx)
      /\ build \in [Contract -> Nat \ {0}] /\ script.config \in Entries
      /\ UNCHANGED <<chain, code, nonce, known, keyless, resets, rest, trust>>
  BY DEF Creates, Deploy, At, IInv, Types
<1>1. script.config.merkle.address \in Nat /\ script.config.verifier.address \in Nat
  BY <1>0 DEF Entries, Contract
<1>2. Hash(c, script.config) \in Bytecode /\ Uses(c) \in [merkle : Nat, verifier : Nat]
  BY <1>0, <1>1 DEF Hash, Uses, Bytecode
<1>3. CreationOf(c) \in Tx /\ CreationOf(c).what = c
  BY <1>2 DEF CreationOf, Tx, Creation
<1>4. /\ Sound(CreationOf(c)) /\ Expected(CreationOf(c))
      /\ c = "factory" => CreationOf(c).uses.verifier = script.config.verifier.address
  BY <1>0 DEF CreationOf, Sound, Expected, Hash, Uses
<1>5. /\ pending' \in Seq(Tx) /\ Len(pending') = Len(pending) + 1 /\ Len(pending) \in Nat
      /\ \A k \in 1 .. Len(pending) : pending'[k] = pending[k]
      /\ pending'[Len(pending) + 1] = CreationOf(c)
  BY <1>0, <1>3, AppendLast DEF Creates, Send
<1>6. /\ script' \in [at : Step, await : Nat, config : Entries, sawProxy : BOOLEAN]
      /\ script'.at = script.at /\ script'.config = script.config
      /\ script'.await = nonce + Len(pending) + 1
  <2>1. nonce + Len(pending) + 1 \in Nat
    BY <1>0, <1>5
  <2> QED BY <1>0, <2>1 DEF Creates
<1> QED BY <1>0, <1>3, <1>4, <1>5, <1>6

LEMMA CreatesKeeps == ASSUME IInv, NEW c \in Contract, Creates(c) PROVE IInv'
<1> DEFINE tx == CreationOf(c)
<1>1. \A k \in 1 .. Len(pending') : k \in 1 .. Len(pending) \/ pending'[k] = tx
  BY CreationSent
<1>2. Types'
  <2>1. script'.await <= nonce' + Len(pending')
    BY CreationSent
  <2> QED BY <2>1, CreationSent DEF rest, IInv, Types
<1>3. Whole(file)' /\ Whole(script.config)' /\ FileLinked'
  BY CreationSent DEF rest, IInv, Whole, FileLinked
<1>4. CreationsSound'
  BY <1>1, CreationSent DEF IInv, CreationsSound, Sound
<1>5. AwaitsCreation'
  <2>1. script'.await > nonce' /\ script'.await - nonce' = Len(pending) + 1
    BY CreationSent
  <2> QED BY <2>1, CreationSent DEF AwaitsCreation, Expected
<1>6. AwaitsInStep'
  BY CreationSent DEF AwaitsInStep
<1>7. Progress'
  BY CreationSent DEF IInv, Progress
<1> QED BY <1>2, <1>3, <1>4, <1>5, <1>6, <1>7 DEF IInv

LEMMA DeployKeeps == ASSUME IInv, NEW c \in Contract, Deploy(c) PROVE IInv'
BY DeployCases, SkipQuiet, QuietStep, CreatesKeeps

\* What the script puts into its copy of the file when a contract is there.
LEMMA AwaitedGets ==
  ASSUME IInv, Awaited, NEW cfg, cfg = Deployed(script.at)
  PROVE  /\ script.await # 0 /\ script.await <= nonce /\ script.config \in Entries
         /\ script.at \in Contract \cup {"entrypoint"}
         /\ UNCHANGED <<chainVars, rest, trust>>
         /\ cfg \in Entries
         /\ \A c \in Contract : c # script.at => cfg[c] = script.config[c]
         /\ script.at \in Contract =>
              /\ cfg[script.at] = [address |-> script.await, hash |-> code[script.await].hash]
              /\ script.await \in DOMAIN code /\ Expected(code[script.await])
              /\ Sound(code[script.await])
         /\ script' \in [at : Step, await : Nat, config : Entries, sawProxy : BOOLEAN]
         /\ script'.at = After[script.at] /\ script'.await = 0 /\ script'.config = cfg
<1>1. /\ script \in [at : Step, await : Nat, config : Entries, sawProxy : BOOLEAN]
      /\ script.await # 0 /\ script.await <= nonce /\ script.config \in Entries
      /\ script.at \in Contract \cup {"entrypoint"} /\ script.at \in DOMAIN After
  <2>1. script \in [at : Step, await : Nat, config : Entries, sawProxy : BOOLEAN] /\ nonce \in Nat
    BY DEF IInv, Types
  <2>2. script.await \in 1 .. nonce
    BY DEF Awaited, IsMined
  <2>3. script.await # 0 /\ script.await <= nonce
    BY <2>1, <2>2
  <2> QED BY <2>1, <2>3, AfterStep DEF IInv, AwaitsInStep, Contract
<1>2. UNCHANGED <<chainVars, rest, trust>>
  BY DEF Awaited, scriptUnchanged
<1>3. ASSUME script.at \in Contract
      PROVE  /\ script.await \in DOMAIN code /\ Expected(code[script.await])
             /\ code[script.await] \in Creation /\ Sound(code[script.await])
             /\ cfg = [script.config EXCEPT
                         ![script.at] = [address |-> script.await, hash |-> code[script.await].hash]]
  <2>1. nonce \in Nat /\ code \in [DOMAIN code -> Creation]
    BY DEF IInv, Types
  <2>2. script.await \in DOMAIN code /\ Expected(code[script.await])
    BY <1>1, <1>3, <2>1 DEF IInv, AwaitsCreation
  <2> QED BY <1>3, <2>1, <2>2 DEF Deployed, IInv, CreationsSound
<1>4. script.at \notin Contract => cfg = script.config
  BY DEF Deployed
<1>5. /\ cfg \in Entries
      /\ \A c \in Contract : c # script.at => cfg[c] = script.config[c]
      /\ script.at \in Contract =>
           cfg[script.at] = [address |-> script.await, hash |-> code[script.await].hash]
  <2>1. CASE script.at \in Contract
    <3>1. [address |-> script.await, hash |-> code[script.await].hash]
            \in [address : Nat, hash : Bytecode]
      BY <1>1, <1>3, <2>1 DEF Creation
    <3>2. script.config \in [Contract -> [address : Nat, hash : Bytecode]]
      BY <1>1 DEF Entries
    <3> QED BY <1>3, <2>1, <3>1, <3>2 DEF Entries
  <2>2. CASE script.at \notin Contract
    BY <1>1, <1>4, <2>2
  <2> QED BY <2>1, <2>2
<1>6. /\ script' \in [at : Step, await : Nat, config : Entries, sawProxy : BOOLEAN]
      /\ script'.at = After[script.at] /\ script'.await = 0 /\ script'.config = cfg
  <2>1. script' = [script EXCEPT !.at = After[script.at], !.await = 0, !.config = cfg]
    BY DEF Awaited
  <2>2. After[script.at] \in Step
    BY <1>1, AfterStep DEF Step
  <2> QED BY <1>1, <1>5, <2>1, <2>2
<1> QED BY <1>1, <1>2, <1>3, <1>5, <1>6

LEMMA AwaitedKeeps == ASSUME IInv, Awaited PROVE IInv'
<1>0. PICK cfg : cfg = Deployed(script.at)
  OBVIOUS
<1>1. /\ script.await # 0 /\ script.await <= nonce /\ script.config \in Entries
      /\ script.at \in Contract \cup {"entrypoint"}
  BY <1>0, AwaitedGets
<1>2. UNCHANGED <<chainVars, rest, trust>>
  BY <1>0, AwaitedGets
<1>3. script.at \in Contract => Expected(code[script.await]) /\ Sound(code[script.await])
  BY <1>0, AwaitedGets
<1>4. /\ \A c \in Contract : c # script.at => cfg[c] = script.config[c]
      /\ script.at \in Contract =>
           cfg[script.at] = [address |-> script.await, hash |-> code[script.await].hash]
  BY <1>0, AwaitedGets
<1>5. /\ script' \in [at : Step, await : Nat, config : Entries, sawProxy : BOOLEAN]
      /\ script'.at = After[script.at] /\ script'.await = 0 /\ script'.config = cfg
  BY <1>0, AwaitedGets
<1>6. Types'
  <2>1. script'.await <= nonce' + Len(pending')
    <3>1. pending \in Seq(Tx) /\ nonce \in Nat
      BY DEF IInv, Types
    <3>2. Len(pending) \in Nat
      BY <3>1, LenProperties
    <3> QED BY <1>2, <1>5, <3>1, <3>2 DEF chainVars
  <2> QED BY <1>2, <1>5, <2>1 DEF chainVars, rest, IInv, Types
<1>7. Whole(file)' /\ FileLinked' /\ CreationsSound' /\ AwaitsCreation' /\ AwaitsInStep'
  BY <1>2, <1>5 DEF chainVars, rest, IInv, Whole, FileLinked, CreationsSound, Sound,
                    AwaitsCreation, AwaitsInStep
<1>8. Whole(script.config)'
  <2>1. Whole(cfg)
    <3> SUFFICES ASSUME NEW c \in Contract PROVE (cfg[c].address = 0) <=> (cfg[c].hash = NoHash)
      BY DEF Whole
    <3>1. CASE c = script.at
      BY <1>1, <1>3, <1>4, <3>1 DEF Sound, NoHash
    <3>2. CASE c # script.at
      BY <1>4, <3>2 DEF IInv, Whole
    <3> QED BY <3>1, <3>2
  <2> QED BY <1>5, <2>1 DEF Whole
<1>9. Progress'
  <2>1. script.at \in {"verifier", "merkle", "factory"} => cfg.verifier # Nowhere
    <3>1. CASE script.at = "verifier"
      BY <1>1, <1>4, <3>1 DEF Contract, Nowhere
    <3>2. CASE script.at \in {"merkle", "factory"}
      BY <1>4, <3>2 DEF Contract, IInv, Progress
    <3> QED BY <3>1, <3>2
  <2>2. script.at = "factory" => cfg.factory.hash.merkle = cfg.merkle.address
    BY <1>3, <1>4 DEF Contract, Expected
  <2>3. /\ script'.at \in {"merkle", "factory", "write"} =>
             script.at \in {"verifier", "merkle", "factory"}
        /\ script'.at = "write" => script.at = "factory"
    BY <1>1, <1>5, AfterStep DEF Contract
  <2> QED BY <1>5, <2>1, <2>2, <2>3 DEF Progress
<1> QED BY <1>6, <1>7, <1>8, <1>9 DEF IInv

LEMMA WriteFileKeeps == ASSUME IInv, WriteFile PROVE IInv'
<1>1. /\ file' = IF chain = "hardhat" THEN file ELSE script.config
      /\ script' = Idle /\ script.at = "write" /\ trust' \in {"yes", "after reset", "lost"}
      /\ UNCHANGED <<chainVars, build, rebuilds, bundlerUrl, runs>>
  BY DEF WriteFile, At, IInv, Types
<1>2. script.config \in Entries /\ nonce \in Nat /\ pending \in Seq(Tx)
  BY DEF IInv, Types
<1>3. Types'
  <2>1. script'.await <= nonce' + Len(pending')
    <3>1. Len(pending) \in Nat
      BY <1>2, LenProperties
    <3>2. script'.await = 0 /\ nonce' = nonce /\ pending' = pending
      BY <1>1, IdleTyped DEF chainVars
    <3> QED BY <1>2, <3>1, <3>2
  <2> QED BY <1>1, <1>2, <2>1, IdleTyped DEF chainVars, IInv, Types
<1>4. Whole(NoFile)
  BY DEF Whole, NoFile, Nowhere, NoHash
<1>5. Whole(file)' /\ Whole(script.config)'
  BY <1>1, <1>4, IdleTyped DEF IInv, Whole
<1>6. CreationsSound' /\ AwaitsCreation' /\ AwaitsInStep' /\ Progress'
  BY <1>1, IdleTyped DEF chainVars, IInv, CreationsSound, Sound, AwaitsCreation, AwaitsInStep,
                         Progress
<1>7. FileLinked'
  BY <1>1 DEF IInv, FileLinked, Progress
<1> QED BY <1>3, <1>5, <1>6, <1>7 DEF IInv

LEMMA ResetKeeps == ASSUME IInv, Reset PROVE IInv'
<1>1. /\ chain' = chain /\ chain # "public" /\ code' = <<>> /\ nonce' = 0 /\ pending' = <<>>
      /\ known' = {} /\ keyless' = "unsent" /\ script' = Idle /\ trust' = "after reset"
      /\ resets' = resets + 1 /\ UNCHANGED rest
  BY DEF Reset
<1>2. resets \in Nat
  BY DEF IInv, Types
<1>3. /\ pending' \in Seq(Tx) /\ Len(pending') = 0
      /\ DOMAIN code' = {} /\ code' \in [DOMAIN code' -> Creation]
  <2>1. <<>> \in Seq(Tx) /\ <<>> \in Seq(Creation) /\ Len(<<>>) = 0
    BY EmptySeq
  <2>2. DOMAIN <<>> = 1 .. 0 /\ <<>> \in [1 .. 0 -> Creation]
    BY <2>1, LenProperties
  <2>3. 1 .. 0 = {}
    OBVIOUS
  <2> QED BY <1>1, <2>1, <2>2, <2>3
<1>4. Types'
  <2>1. script'.await <= nonce' + Len(pending')
    <3>1. script'.await = 0 /\ nonce' = 0 /\ Len(pending') = 0
      BY <1>1, <1>3, IdleTyped
    <3> QED BY <3>1
  <2>2. resets' \in Nat
    <3>1. resets' = resets + 1
      BY <1>1
    <3> QED BY <1>2, <3>1
  <2> QED BY <1>1, <1>3, <2>1, <2>2, IdleTyped DEF rest, IInv, Types
<1>5. Whole(NoFile)
  BY DEF Whole, NoFile, Nowhere, NoHash
<1>6. Whole(file)' /\ Whole(script.config)' /\ FileLinked'
  BY <1>1, <1>5, IdleTyped DEF rest, IInv, Whole, FileLinked
<1>7. CreationsSound'
  <2>1. 1 .. Len(pending') = {}
    BY <1>3
  <2> QED BY <1>3, <2>1 DEF CreationsSound
<1>8. AwaitsCreation' /\ AwaitsInStep' /\ Progress'
  BY <1>1, IdleTyped DEF AwaitsCreation, AwaitsInStep, Progress
<1> QED BY <1>4, <1>6, <1>7, <1>8 DEF IInv

-----------------------------------------------------------------------------
(* The theorems                                                            *)

LEMMA StepKeeps == ASSUME IInv, [Next]_vars PROVE IInv'
<1>1. CASE Next
  <2>1. CASE DeployEntryPoint \/ DeployBundler \/ FundProxy \/ SendProxy
    BY <2>1, DeployEntryPointQuiet, DeployBundlerQuiet, FundProxyQuiet, SendProxyQuiet, QuietStep
  <2>2. CASE \E h \in Hasher : SendHasher(h)
    BY <2>2, SendHasherQuiet, QuietStep
  <2>3. CASE \E c \in Contract : Deploy(c)
    BY <2>3, DeployKeeps
  <2>4. CASE Mine \/ Awaited \/ WriteFile \/ Reset
    BY <2>4, MineKeeps, AwaitedKeeps, WriteFileKeeps, ResetKeeps
  <2>5. CASE MineProxy \/ Start \/ Dies
    BY <2>5, MineProxyQuiet, StartQuiet, DiesQuiet, QuietStep
  <2>6. CASE \E c \in Contract, b \in 1 .. MaxBuild : Rebuild(c, b)
    BY <2>6, RebuildQuiet, QuietStep
  <2> QED BY <1>1, <2>1, <2>2, <2>3, <2>4, <2>5, <2>6 DEF Next, ScriptStep
<1>2. CASE UNCHANGED vars
  BY <1>2, StutterQuiet, QuietStep
<1> QED BY <1>1, <1>2

\* Every behaviour of the script keeps the invariant, on every chain and however often it
\* is run, dies, and the chain or a source begins anew.
THEOREM InductiveInvariant == Spec => []IInv
<1>1. Init => IInv
  BY InitHolds
<1>2. IInv /\ [Next]_vars => IInv'
  BY StepKeeps
<1> QED BY <1>1, <1>2, PTL DEF Spec

\* The types; an entry of the file that is written has an address and a hash or neither.
THEOREM TypeCorrect == Spec => []TypeOK
<1>1. IInv => TypeOK
  BY DEF IInv, Types, Whole, TypeOK, Step
<1> QED BY <1>1, InductiveInvariant, PTL

-----------------------------------------------------------------------------
(* Why an address of another chain is not taken for a contract of this one *)

\* On a chain of one's own no contract comes with a smaller nonce than in the first run, which
\* sends all transactions in order, and every stale entry of the file is from such a chain.
\* The proxy is not there before its funds are.
Place ==
  [entrypoint |-> 1, greeter |-> 2, fund |-> 3, proxy |-> 3, PoseidonT3 |-> 4,
   PoseidonT2 |-> 5, verifier |-> 6, merkle |-> 7, factory |-> 8]

\* How many transactions are sent before a step of the script begins.
Before ==
  [idle |-> 0, entrypoint |-> 0, bundler |-> 1, greeter |-> 1, proxy |-> 2, proxyTx |-> 3,
   PoseidonT3 |-> 3, PoseidonT2 |-> 4, verifier |-> 5, merkle |-> 6, factory |-> 7, write |-> 8]

Sent == nonce + Len(pending)

Placed(cfg) == \A c \in Contract : cfg[c] # Nowhere => cfg[c].address >= Place[c]

StepPlaced ==
  /\ script.await = 0 => Sent >= Before[script.at]
  /\ script.await # 0 => script.await > Before[script.at]

Places ==
  /\ Placed(file) /\ Placed(script.config)
  /\ \A n \in DOMAIN code : n >= Place[code[n].what]
  /\ \A k \in 1 .. Len(pending) : nonce + k >= Place[pending[k].what]
  /\ \A x \in known : nonce >= Place[x]
  /\ keyless # "unsent" => nonce >= Place["fund"]
  /\ StepPlaced

\* What a copy of the file says of contract c is true of the chain.
TrueOf(cfg, c) ==
  cfg[c] # Nowhere =>
    /\ cfg[c].address \in DOMAIN code
    /\ code[cfg[c].address].what = c /\ code[cfg[c].address].hash = cfg[c].hash

TruthfulIn(cfg) == \A c \in Contract : TrueOf(cfg, c)

\* The verifier that creation tx uses is on the chain.
HasVerifier(tx) ==
  tx.what = "factory" =>
    tx.uses.verifier \in DOMAIN code /\ code[tx.uses.verifier].what = "verifier"

\* The first run after a new start has sent exactly what brings it to its step, and what it
\* has been through is true.
FirstRun ==
  chain = "local" /\ trust = "after reset" =>
    /\ script.await = 0 => Sent <= Before[script.at]
    /\ script.await # 0 => Sent <= Before[script.at] + 1
    /\ \A c \in Contract : Before[script.at] >= Place[c] => TrueOf(script.config, c)

Truth ==
  /\ chain = "public" => trust = "yes"
  /\ chain = "hardhat" => file = NoFile
  /\ chain # "hardhat" /\ trust = "yes" => TruthfulIn(file) /\ TruthfulIn(script.config)
  /\ chain # "hardhat" /\ trust # "lost" =>
       /\ \A n \in DOMAIN code : HasVerifier(code[n])
       /\ \A k \in 1 .. Len(pending) : HasVerifier(pending[k])

Believable == (chain # "public" => Places) /\ FirstRun /\ Truth

-----------------------------------------------------------------------------
LEMMA Order ==
  /\ Place["entrypoint"] = 1 /\ Place["greeter"] = 2 /\ Place["fund"] = 3 /\ Place["proxy"] = 3
  /\ Place["PoseidonT3"] = 4 /\ Place["PoseidonT2"] = 5 /\ Place["verifier"] = 6
  /\ Place["merkle"] = 7 /\ Place["factory"] = 8
  /\ Before["idle"] = 0 /\ Before["entrypoint"] = 0 /\ Before["bundler"] = 1
  /\ Before["greeter"] = 1 /\ Before["proxy"] = 2 /\ Before["proxyTx"] = 3
  /\ Before["PoseidonT3"] = 3 /\ Before["PoseidonT2"] = 4 /\ Before["verifier"] = 5
  /\ Before["merkle"] = 6 /\ Before["factory"] = 7 /\ Before["write"] = 8
BY DEF Place, Before

LEMMA Typed ==
  ASSUME IInv
  PROVE  /\ nonce \in Nat /\ pending \in Seq(Tx) /\ Len(pending) \in Nat /\ Sent \in Nat
         /\ script.await \in Nat /\ script.at \in Step /\ Before[script.at] \in Nat
         /\ code \in [DOMAIN code -> Creation] /\ DOMAIN code \subseteq 1 .. nonce
         /\ trust \in {"yes", "after reset", "lost"} /\ chain \in Chain
<1>1. nonce \in Nat /\ pending \in Seq(Tx) /\ script.await \in Nat /\ script.at \in Step
  BY DEF IInv, Types
<1>2. Len(pending) \in Nat
  BY <1>1, LenProperties
<1>3. Before[script.at] \in Nat
  BY <1>1, AfterStep, Order DEF Step
<1>4. Sent \in Nat
  BY <1>1, <1>2 DEF Sent
<1> QED BY <1>1, <1>2, <1>3, <1>4 DEF IInv, Types

LEMMA BelievableInit == Init => Believable
<1> SUFFICES ASSUME Init PROVE Believable
  OBVIOUS
<1>1. /\ script.at = "idle" /\ script.await = 0 /\ script.config = NoFile /\ file = NoFile
      /\ trust = "yes" /\ nonce = 0 /\ pending = <<>> /\ Len(pending) = 0 /\ DOMAIN code = {}
  BY IdleTyped DEF Init
<1>2. Placed(NoFile) /\ TruthfulIn(NoFile)
  BY DEF Placed, TruthfulIn, TrueOf, NoFile
<1>3. chain # "public" => known = {} /\ keyless = "unsent"
  BY DEF Init
<1>4. StepPlaced
  BY <1>1, Order DEF StepPlaced, Sent
<1>5. chain # "public" => Places
  BY <1>1, <1>2, <1>3, <1>4 DEF Places
<1>6. FirstRun /\ Truth
  BY <1>1, <1>2 DEF FirstRun, Truth
<1> QED BY <1>5, <1>6 DEF Believable

\* What is sent next comes at the end.
LEMMA SendsLast ==
  ASSUME IInv, NEW tx \in Tx, Send(tx)
  PROVE  /\ pending' \in Seq(Tx) /\ Len(pending') = Len(pending) + 1 /\ Len(pending) \in Nat
         /\ \A k \in 1 .. Len(pending') :
              IF k \in 1 .. Len(pending) THEN pending'[k] = pending[k]
                                         ELSE k = Len(pending) + 1 /\ pending'[k] = tx
<1>1. pending \in Seq(Tx) /\ pending' = Append(pending, tx)
  BY Typed DEF Send
<1> QED BY <1>1, AppendLast

\* Everything stays in place while nothing is mined and what is sent is in place.
LEMMA PlacesStay ==
  ASSUME IInv, Places, UNCHANGED <<code, nonce>>,
         pending' = pending \/ \E tx \in Tx : Send(tx) /\ Sent + 1 >= Place[tx.what],
         \A x \in known' : x \in known \/ (x = "proxy" /\ keyless # "unsent"),
         keyless' # "unsent" => keyless # "unsent",
         Placed(file)', Placed(script.config)', StepPlaced'
  PROVE  Places'
<1>1. \A n \in DOMAIN code' : n >= Place[code'[n].what]
  BY DEF Places
<1>2. \A k \in 1 .. Len(pending') : nonce' + k >= Place[pending'[k].what]
  <2>1. CASE pending' = pending
    BY <2>1 DEF Places
  <2>2. CASE \E tx \in Tx : Send(tx) /\ Sent + 1 >= Place[tx.what]
    <3>1. PICK tx \in Tx : Send(tx) /\ Sent + 1 >= Place[tx.what]
      BY <2>2
    <3>2. nonce + (Len(pending) + 1) = Sent + 1
      <4>1. nonce \in Nat /\ Len(pending) \in Nat
        BY Typed
      <4> QED BY <4>1 DEF Sent
    <3> QED BY <3>1, <3>2, SendsLast DEF Places
  <2> QED BY <2>1, <2>2
<1>3. \A x \in known' : nonce' >= Place[x]
  BY Order DEF Places
<1>4. keyless' # "unsent" => nonce' >= Place["fund"]
  BY DEF Places
<1> QED BY <1>1, <1>2, <1>3, <1>4 DEF Places

\* The truth stays while no contract is created and the script believes in nothing new.
LEMMA TruthStays ==
  ASSUME IInv, Truth, UNCHANGED <<chain, code, file>>,
         trust' = trust \/ (trust = "after reset" /\ trust' = "lost"),
         script'.config \in {script.config, file, NoFile},
         pending' = pending \/ \E tx \in Tx : Send(tx) /\ tx.what \notin Contract
  PROVE  Truth'
<1>1. chain # "hardhat" /\ trust' = "yes" => TruthfulIn(file)' /\ TruthfulIn(script.config)'
  <2> SUFFICES ASSUME chain # "hardhat", trust' = "yes"
               PROVE  TruthfulIn(file)' /\ TruthfulIn(script.config)'
    OBVIOUS
  <2>1. TruthfulIn(file) /\ TruthfulIn(script.config) /\ TruthfulIn(NoFile)
    BY DEF Truth, TruthfulIn, TrueOf, NoFile
  <2>2. TruthfulIn(file)'
    BY <2>1 DEF TruthfulIn, TrueOf
  <2>3. CASE script'.config = script.config
    BY <2>1, <2>2, <2>3 DEF TruthfulIn, TrueOf
  <2>4. CASE script'.config = file
    BY <2>1, <2>2, <2>4 DEF TruthfulIn, TrueOf
  <2>5. CASE script'.config = NoFile
    BY <2>1, <2>2, <2>5 DEF TruthfulIn, TrueOf
  <2> QED BY <2>3, <2>4, <2>5
<1>2. ASSUME chain # "hardhat", trust' # "lost"
      PROVE  /\ \A n \in DOMAIN code' : HasVerifier(code[n])'
             /\ \A k \in 1 .. Len(pending') : HasVerifier(pending[k])'
  <2>1. /\ \A n \in DOMAIN code : HasVerifier(code[n])
        /\ \A k \in 1 .. Len(pending) : HasVerifier(pending[k])
    BY <1>2 DEF Truth
  <2>2. \A n \in DOMAIN code' : HasVerifier(code[n])'
    BY <2>1 DEF HasVerifier
  <2>3. \A k \in 1 .. Len(pending') : pending'[k].what \in Contract =>
          k \in 1 .. Len(pending) /\ pending'[k] = pending[k]
    BY SendsLast
  <2>4. ASSUME NEW k \in 1 .. Len(pending') PROVE HasVerifier(pending[k])'
    BY <2>1, <2>3 DEF HasVerifier, Contract
  <2> QED BY <2>2, <2>4
<1> QED BY <1>1, <1>2 DEF Truth

\* A quiet step that leaves the doubtful at most more doubtful.
LEMMA QuietBelieved ==
  ASSUME IInv, Believable, Quiet,
         trust' = trust \/ (trust = "after reset" /\ trust' = "lost"),
         chain # "public" =>
           /\ \/ pending' = pending
              \/ \E tx \in Tx : tx.what \notin Contract /\ Send(tx) /\ Sent + 1 >= Place[tx.what]
           /\ \A x \in known' : x \in known \/ (x = "proxy" /\ keyless # "unsent")
           /\ keyless' # "unsent" => keyless # "unsent"
           /\ StepPlaced',
         FirstRun'
  PROVE  Believable'
<1>1. UNCHANGED <<chain, code, nonce, file>> /\ script'.config \in {script.config, file, NoFile}
  BY DEF Quiet
<1>2. chain' # "public" => Places'
  <2> SUFFICES ASSUME chain # "public" PROVE Places'
    BY <1>1
  <2>1. Places
    BY DEF Believable
  <2>2. Placed(file) /\ Placed(script.config) /\ Placed(NoFile)
    BY <2>1 DEF Places, Placed, NoFile
  <2>3. Placed(file)' /\ Placed(script.config)'
    BY <1>1, <2>2 DEF Placed
  <2>4. pending' = pending \/ \E tx \in Tx : Send(tx) /\ Sent + 1 >= Place[tx.what]
    OBVIOUS
  <2> QED BY <1>1, <2>1, <2>3, <2>4, PlacesStay
<1>3. Truth'
  <2>1. pending' = pending \/ \E tx \in Tx : Send(tx) /\ tx.what \notin Contract
    BY DEF Quiet
  <2> QED BY <1>1, <2>1, TruthStays DEF Believable
<1> QED BY <1>2, <1>3 DEF Believable

LEMMA StopBelieved ==
  ASSUME IInv, Believable, Quiet, StopScript, scriptUnchanged' = scriptUnchanged
  PROVE  Believable'
<1>1. /\ script' = Idle /\ pending' = pending /\ known' = known /\ keyless' = keyless
      /\ nonce' = nonce /\ chain' = chain
  BY DEF StopScript, scriptUnchanged, chainVars
<1>2. trust' = trust \/ (trust = "after reset" /\ trust' = "lost")
  BY DEF StopScript
<1>3. FirstRun'
  BY DEF StopScript, FirstRun
<1>4. StepPlaced'
  <2>1. script'.at = "idle" /\ script'.await = 0 /\ Sent' = Sent
    BY <1>1, IdleTyped DEF Sent
  <2>2. Sent \in Nat
    BY Typed
  <2>3. Before["idle"] = 0
    BY Order
  <2> QED BY <2>1, <2>2, <2>3 DEF StepPlaced
<1> QED BY <1>1, <1>2, <1>3, <1>4, QuietBelieved

\* The script is at its next step, with nothing to wait for.
LEMMA NextBelieved ==
  ASSUME IInv, Believable, Quiet, script.await = 0, script'.await = 0,
         script'.config = script.config, trust' = trust, known' = known,
         chain # "public" =>
           /\ \/ pending' = pending
              \/ \E tx \in Tx : tx.what \notin Contract /\ Send(tx) /\ Sent + 1 >= Place[tx.what]
           /\ keyless' # "unsent" => keyless # "unsent"
           /\ Sent' >= Before[script'.at],
         chain = "local" /\ trust = "after reset" =>
           /\ Sent' <= Before[script'.at]
           /\ \A c \in Contract : Before[script'.at] >= Place[c] => Before[script.at] >= Place[c]
  PROVE  Believable'
<1>1. UNCHANGED <<chain, code>>
  BY DEF Quiet
<1>2. chain # "public" => StepPlaced'
  BY DEF StepPlaced
<1>3. FirstRun'
  <2> SUFFICES ASSUME chain = "local", trust = "after reset"
               PROVE  /\ Sent' <= Before[script'.at]
                      /\ \A c \in Contract :
                           Before[script'.at] >= Place[c] => TrueOf(script.config, c)'
    BY <1>1 DEF FirstRun
  <2>1. \A c \in Contract : Before[script.at] >= Place[c] => TrueOf(script.config, c)
    BY DEF Believable, FirstRun
  <2>2. ASSUME NEW c \in Contract, TrueOf(script.config, c) PROVE TrueOf(script.config, c)'
    BY <1>1, <2>2 DEF TrueOf
  <2> QED BY <2>1, <2>2
<1> QED BY <1>2, <1>3, QuietBelieved

\* What a step knows of the numbers sent.
LEMMA StepFacts ==
  ASSUME IInv, Believable, chain # "public", script.await = 0
  PROVE  /\ Sent >= Before[script.at]
         /\ \A x \in known : Sent >= Place[x]
         /\ keyless # "unsent" => Sent >= 3
         /\ chain = "local" /\ trust = "after reset" => Sent <= Before[script.at]
<1>1. Places
  BY DEF Believable
<1>2. Sent >= Before[script.at]
  BY <1>1 DEF Places, StepPlaced
<1>3. /\ nonce \in Nat /\ Sent \in Nat /\ nonce <= Sent
      /\ \A x \in known : Place[x] \in Nat
  <2>1. nonce \in Nat /\ Len(pending) \in Nat
    BY Typed
  <2>2. known \subseteq Hasher \cup {"entrypoint", "proxy"}
    BY DEF IInv, Types
  <2>3. \A x \in known : Place[x] \in Nat
    BY <2>2, Order DEF Hasher
  <2> QED BY <2>1, <2>3 DEF Sent
<1>4. \A x \in known : Sent >= Place[x]
  <2>1. \A x \in known : nonce >= Place[x]
    BY <1>1 DEF Places
  <2> QED BY <1>3, <2>1
<1>5. keyless # "unsent" => Sent >= 3
  <2>1. keyless # "unsent" => nonce >= 3
    BY <1>1, Order DEF Places
  <2> QED BY <1>3, <2>1
<1>6. chain = "local" /\ trust = "after reset" => Sent <= Before[script.at]
  BY DEF Believable, FirstRun
<1> QED BY <1>2, <1>4, <1>5, <1>6

\* After a transaction is sent one more is.
LEMMA SentMore ==
  ASSUME IInv, nonce' = nonce
  PROVE  /\ pending' = pending => Sent' = Sent
         /\ \A tx \in Tx : Send(tx) => Sent' = Sent + 1
<1>1. nonce \in Nat /\ Len(pending) \in Nat
  BY Typed
<1>2. ASSUME NEW tx \in Tx, Send(tx) PROVE Sent' = Sent + 1
  <2>1. Len(pending') = Len(pending) + 1
    BY <1>2, SendsLast
  <2> QED BY <1>1, <2>1 DEF Sent
<1> QED BY <1>2 DEF Sent

LEMMA StartBelieved == ASSUME IInv, Believable, Start PROVE Believable'
<1>1. /\ script'.at = "entrypoint" /\ script'.await = 0 /\ script'.config = file
      /\ UNCHANGED <<chain, code, nonce, pending, known, keyless, trust>>
      /\ script.at = "idle" /\ script.await = 0
  BY IdleTyped DEF Start, chainVars
<1>2. Sent' = Sent /\ Sent \in Nat
  BY <1>1, Typed DEF Sent
<1>3. StepPlaced'
  BY <1>1, <1>2, Order DEF StepPlaced
<1>4. FirstRun'
  <2>1. \A c \in Contract : ~ 0 >= Place[c]
    BY Order DEF Contract
  <2>2. chain = "local" /\ trust = "after reset" => Sent <= 0
    BY <1>1, Order DEF Believable, FirstRun
  <2> QED BY <1>1, <1>2, <2>1, <2>2, Order DEF FirstRun
<1> QED BY <1>1, <1>3, <1>4, StartQuiet, QuietBelieved

LEMMA DeployEntryPointBelieved ==
  ASSUME IInv, Believable, DeployEntryPoint PROVE Believable'
<1>0. /\ script.at = "entrypoint" /\ script.await = 0 /\ Quiet
      /\ script \in [at : Step, await : Nat, config : Entries, sawProxy : BOOLEAN]
  BY DeployEntryPointQuiet DEF DeployEntryPoint, At, IInv, Types
<1>1. CASE "entrypoint" \in known /\ GotoNext /\ UNCHANGED <<scriptUnchanged, trust>>
  <2>1. script'.at = "bundler" /\ script'.await = 0 /\ script'.config = script.config
    BY <1>0, <1>1, AfterStep DEF GotoNext
  <2>2. UNCHANGED <<nonce, pending, known, keyless, trust>>
    BY <1>1 DEF scriptUnchanged, chainVars
  <2>3. Sent' = Sent /\ Sent \in Nat /\ nonce \in Nat
    BY <2>2, SentMore, Typed
  <2>4. ASSUME chain # "public"
        PROVE  Sent >= 1 /\ (chain = "local" => trust # "after reset")
    <3>1. Sent >= 1
      BY <1>0, <1>1, <2>4, StepFacts, Order
    <3>2. ASSUME chain = "local", trust = "after reset" PROVE FALSE
      <4>1. Sent <= 0
        BY <1>0, <2>4, <3>2, StepFacts, Order
      <4> QED BY <2>3, <3>1, <4>1
    <3> QED BY <3>1, <3>2
  <2> QED BY <1>0, <2>1, <2>2, <2>3, <2>4, NextBelieved, Order
<1>2. CASE StopScript /\ UNCHANGED scriptUnchanged
  BY <1>0, <1>2, StopBelieved
<1>3. CASE /\ Send([what |-> "entrypoint"])
           /\ script' = [script EXCEPT !.await = nonce + Len(pending) + 1]
           /\ UNCHANGED <<chain, code, nonce, known, keyless, resets, rest, trust>>
  <2> DEFINE tx == [what |-> "entrypoint"]
  <2>1. tx \in Tx /\ tx.what = "entrypoint" /\ tx.what \notin Contract
    BY DEF Tx, Contract
  <2> HIDE DEF tx
  <2>2. Send(tx)
    BY <1>3 DEF tx
  <2>3. Sent' = Sent + 1 /\ Sent \in Nat
    BY <1>3, <2>1, <2>2, SentMore, Typed
  <2>4. script'.at = "entrypoint" /\ script'.await = Sent + 1 /\ script'.config = script.config
    BY <1>0, <1>3 DEF Sent
  <2>5. StepPlaced'
    BY <2>3, <2>4, Order DEF StepPlaced
  <2>6. FirstRun'
    <3>1. \A c \in Contract : ~ 0 >= Place[c]
      BY Order DEF Contract
    <3>2. chain = "local" /\ trust = "after reset" => Sent <= 0
      BY <1>0, StepFacts, Order
    <3>3. Before["entrypoint"] = 0
      BY Order
    <3>4. Sent + 1 # 0 /\ (Sent <= 0 => Sent' <= 0 + 1)
      BY <2>3
    <3> QED BY <1>3, <2>4, <3>1, <3>2, <3>3, <3>4 DEF FirstRun
  <2>7. Sent + 1 >= Place[tx.what]
    BY <2>1, <2>3, Order
  <2> QED BY <1>0, <1>3, <2>1, <2>2, <2>5, <2>6, <2>7, QuietBelieved
<1> QED BY <1>1, <1>2, <1>3 DEF DeployEntryPoint

LEMMA DeployBundlerBelieved == ASSUME IInv, Believable, DeployBundler PROVE Believable'
<1>0. /\ script.at = "bundler" /\ script.await = 0 /\ Quiet
      /\ script \in [at : Step, await : Nat, config : Entries, sawProxy : BOOLEAN]
      /\ UNCHANGED scriptUnchanged
  BY DeployBundlerQuiet DEF DeployBundler, At, IInv, Types
<1>1. CASE GotoNext /\ UNCHANGED trust
  <2>1. script'.at = "greeter" /\ script'.await = 0 /\ script'.config = script.config
    BY <1>0, <1>1, AfterStep DEF GotoNext
  <2>2. UNCHANGED <<nonce, pending, known, keyless, trust>>
    BY <1>0, <1>1 DEF scriptUnchanged, chainVars
  <2>3. Sent' = Sent /\ Before[script'.at] = Before[script.at]
    BY <1>0, <2>1, <2>2, SentMore, Order
  <2> QED BY <1>0, <2>1, <2>2, <2>3, StepFacts, NextBelieved
<1>2. CASE StopScript
  BY <1>0, <1>2, StopBelieved
<1> QED BY <1>1, <1>2 DEF DeployBundler

LEMMA FundProxyBelieved == ASSUME IInv, Believable, FundProxy PROVE Believable'
<1>0. /\ script.at = "proxy" /\ script.await = 0 /\ Quiet
      /\ script \in [at : Step, await : Nat, config : Entries, sawProxy : BOOLEAN]
      /\ UNCHANGED <<chain, code, nonce, known, keyless, trust>>
  BY FundProxyQuiet DEF FundProxy, At, IInv, Types
<1>1. Sent \in Nat
  BY Typed
<1>2. CASE /\ "proxy" \in known /\ UNCHANGED pending
           /\ script' = [script EXCEPT !.at = "PoseidonT3", !.sawProxy = TRUE]
  <2>1. script'.at = "PoseidonT3" /\ script'.await = 0 /\ script'.config = script.config
    BY <1>0, <1>2
  <2>2. Sent' = Sent
    BY <1>0, <1>2, SentMore
  <2>3. ASSUME chain # "public"
        PROVE  Sent' >= Before[script'.at] /\ (chain = "local" => trust # "after reset")
    <3>1. Sent >= 3
      BY <1>0, <1>2, <2>3, StepFacts, Order
    <3>2. ASSUME chain = "local", trust = "after reset" PROVE FALSE
      <4>1. Sent <= 2
        BY <1>0, <2>3, <3>2, StepFacts, Order
      <4> QED BY <1>1, <3>1, <4>1
    <3> QED BY <2>1, <2>2, <3>1, <3>2, Order
  <2> QED BY <1>0, <1>2, <2>1, <2>2, <2>3, NextBelieved
<1>3. CASE GotoNext /\ Send([what |-> "fund"])
  <2> DEFINE tx == [what |-> "fund"]
  <2>1. tx \in Tx /\ tx.what = "fund" /\ tx.what \notin Contract
    BY DEF Tx, Contract
  <2> HIDE DEF tx
  <2>2. Send(tx)
    BY <1>3 DEF tx
  <2>3. script'.at = "proxyTx" /\ script'.await = 0 /\ script'.config = script.config
    BY <1>0, <1>3, AfterStep DEF GotoNext
  <2>4. Sent' = Sent + 1
    BY <1>0, <2>1, <2>2, SentMore
  <2>5. Place[tx.what] = 3 /\ Before[script.at] = 2 /\ Before[script'.at] = 3
    BY <1>0, <2>1, <2>3, Order
  <2>6. chain # "public" => Sent + 1 >= Place[tx.what] /\ Sent' >= Before[script'.at]
    <3>1. chain # "public" => Sent >= 2
      BY <1>0, <2>5, StepFacts
    <3> QED BY <1>1, <2>4, <2>5, <3>1
  <2>7. ASSUME chain = "local", trust = "after reset"
        PROVE  Sent' <= Before[script'.at]
    <3>1. Sent <= 2
      BY <1>0, <2>5, <2>7, StepFacts
    <3> QED BY <1>1, <2>4, <2>5, <3>1
  <2>8. \A c \in Contract : Before[script'.at] >= Place[c] => Before[script.at] >= Place[c]
    BY <2>5, Order DEF Contract
  <2> QED BY <1>0, <2>1, <2>2, <2>3, <2>6, <2>7, <2>8, NextBelieved
<1> QED BY <1>2, <1>3 DEF FundProxy

LEMMA SendProxyBelieved == ASSUME IInv, Believable, SendProxy PROVE Believable'
<1>0. /\ script.at = "proxyTx" /\ script.await = 0 /\ Quiet
      /\ script \in [at : Step, await : Nat, config : Entries, sawProxy : BOOLEAN]
      /\ UNCHANGED <<chain, code, nonce, known, pending>>
  BY SendProxyQuiet DEF SendProxy, At, IInv, Types
<1>1. CASE keyless = "funded" /\ keyless' = "sent" /\ GotoNext /\ UNCHANGED trust
  <2>1. script'.at = "PoseidonT3" /\ script'.await = 0 /\ script'.config = script.config
    BY <1>0, <1>1, AfterStep DEF GotoNext
  <2>2. Sent' = Sent /\ Before[script'.at] = Before[script.at]
    BY <1>0, <2>1, SentMore, Order
  <2> QED BY <1>0, <1>1, <2>1, <2>2, StepFacts, NextBelieved
<1>2. CASE StopScript /\ UNCHANGED keyless
  <2>1. scriptUnchanged' = scriptUnchanged
    BY <1>2 DEF SendProxy, scriptUnchanged, chainVars
  <2> QED BY <1>0, <1>2, <2>1, StopBelieved
<1> QED BY <1>1, <1>2 DEF SendProxy

LEMMA SendHasherBelieved ==
  ASSUME IInv, Believable, NEW h \in Hasher, SendHasher(h) PROVE Believable'
<1>0. /\ script.at = h /\ script.await = 0 /\ Quiet
      /\ script \in [at : Step, await : Nat, config : Entries, sawProxy : BOOLEAN]
      /\ UNCHANGED <<chain, code, nonce, known, keyless, trust>>
  BY SendHasherQuiet DEF SendHasher, At, IInv, Types
<1>1. Sent \in Nat
  BY Typed
<1>2. script'.at = After[h] /\ script'.await = 0 /\ script'.config = script.config
  BY <1>0, AfterStep DEF SendHasher, GotoNext, Hasher
<1>3. /\ Before[script.at] = Place[h] - 1 /\ Before[script'.at] = Place[h] /\ Place[h] \in Nat
  BY <1>0, <1>2, AfterStep, Order DEF Hasher
<1>4. \A c \in Contract : Before[script'.at] >= Place[c] => Before[script.at] >= Place[c]
  BY <1>3, Order DEF Contract, Hasher
<1>5. CASE h \in known /\ UNCHANGED pending
  <2>1. Sent' = Sent
    BY <1>0, <1>5, SentMore
  <2>2. ASSUME chain # "public"
        PROVE  Sent' >= Before[script'.at] /\ (chain = "local" => trust # "after reset")
    <3>1. Sent >= Place[h]
      BY <1>0, <1>5, <2>2, StepFacts
    <3>2. ASSUME chain = "local", trust = "after reset" PROVE FALSE
      <4>1. Sent <= Place[h] - 1
        BY <1>0, <1>3, <2>2, <3>2, StepFacts
      <4> QED BY <1>1, <1>3, <3>1, <4>1
    <3> QED BY <1>3, <2>1, <3>1, <3>2
  <2> QED BY <1>0, <1>2, <1>5, <2>1, <2>2, NextBelieved
<1>6. CASE Send([what |-> h, afterProxy |-> "proxy" \in known])
  <2> DEFINE tx == [what |-> h, afterProxy |-> "proxy" \in known]
  <2>1. tx \in Tx /\ tx.what = h /\ tx.what \notin Contract
    BY DEF Tx, Hasher, Contract
  <2> HIDE DEF tx
  <2>2. Send(tx)
    BY <1>6 DEF tx
  <2>3. Sent' = Sent + 1
    BY <1>0, <2>1, <2>2, SentMore
  <2>4. chain # "public" => Sent + 1 >= Place[tx.what] /\ Sent' >= Before[script'.at]
    <3>1. chain # "public" => Sent >= Place[h] - 1
      BY <1>0, <1>3, StepFacts
    <3> QED BY <1>1, <1>3, <2>1, <2>3, <3>1
  <2>5. ASSUME chain = "local", trust = "after reset"
        PROVE  Sent' <= Before[script'.at]
    <3>1. Sent <= Place[h] - 1
      BY <1>0, <1>3, <2>5, StepFacts
    <3> QED BY <1>1, <1>3, <2>3, <3>1
  <2> QED BY <1>0, <1>2, <1>4, <2>1, <2>2, <2>4, <2>5, NextBelieved
<1> QED BY <1>5, <1>6 DEF SendHasher

\* Steps after which the script is where it was, and sent what it had.
LEMMA SameStepBelieved ==
  ASSUME IInv, Believable, Quiet, UNCHANGED <<script, pending, trust>>,
         \A x \in known' : x \in known \/ (x = "proxy" /\ keyless # "unsent"),
         keyless' # "unsent" => keyless # "unsent"
  PROVE  Believable'
<1>1. UNCHANGED <<chain, code, nonce>>
  BY DEF Quiet
<1>2. Sent' = Sent
  BY <1>1 DEF Sent
<1>3. chain # "public" => StepPlaced'
  BY <1>2 DEF Believable, Places, StepPlaced
<1>4. FirstRun'
  BY <1>1, <1>2 DEF Believable, FirstRun, TrueOf
<1> QED BY <1>3, <1>4, QuietBelieved

LEMMA MineProxyBelieved == ASSUME IInv, Believable, MineProxy PROVE Believable'
<1>1. /\ UNCHANGED <<script, pending, trust>> /\ keyless = "sent"
      /\ known' = known \cup {"proxy"}
  BY DEF MineProxy
<1> QED BY <1>1, MineProxyQuiet, SameStepBelieved

LEMMA RebuildBelieved ==
  ASSUME IInv, Believable, NEW c \in Contract, NEW b \in 1 .. MaxBuild, Rebuild(c, b)
  PROVE  Believable'
<1>1. UNCHANGED <<script, pending, trust, known, keyless>>
  BY DEF Rebuild, chainVars
<1> QED BY <1>1, RebuildQuiet, SameStepBelieved

LEMMA StutterBelieved == ASSUME IInv, Believable, UNCHANGED vars PROVE Believable'
<1>1. UNCHANGED <<script, pending, trust, known, keyless>>
  BY DEF vars, chainVars
<1> QED BY <1>1, StutterQuiet, SameStepBelieved

LEMMA DiesBelieved == ASSUME IInv, Believable, Dies PROVE Believable'
BY DiesQuiet, StopBelieved DEF Dies

\* What a contract that is deployed already, or not, says of the run.
LEMMA InOrder ==
  ASSUME NEW c \in Contract
  PROVE  /\ Place[c] \in Nat /\ Before[c] = Place[c] - 1 /\ Before[After[c]] = Place[c]
         /\ \A d \in Contract : Before[After[c]] >= Place[d] => d = c \/ Before[c] >= Place[d]
BY AfterStep, Order DEF Contract

LEMMA SkipBelieved ==
  ASSUME IInv, Believable, NEW c \in Contract, Deploy(c), IsDeployed(c, script.config),
         GotoNext, UNCHANGED pending
  PROVE  Believable'
<1>0. /\ script.at = c /\ script.await = 0 /\ Quiet /\ c \in DOMAIN After
      /\ script \in [at : Step, await : Nat, config : Entries, sawProxy : BOOLEAN]
      /\ UNCHANGED <<chain, code, nonce, known, keyless, trust>>
  BY SkipQuiet, AfterStep DEF Deploy, At, IInv, Types, Contract
<1>1. script'.at = After[c] /\ script'.await = 0 /\ script'.config = script.config
  BY <1>0 DEF GotoNext
<1>2. Sent' = Sent /\ Sent \in Nat /\ nonce \in Nat /\ Len(pending) \in Nat
  BY <1>0, SentMore, Typed
<1>3. script.config[c] # Nowhere /\ script.config[c].address \in 1 .. nonce
  <2>1. script.config[c].hash.build = build[c] /\ script.config[c].address \in DOMAIN code
    BY DEF IsDeployed, Hash
  <2>2. build[c] # 0 /\ DOMAIN code \subseteq 1 .. nonce
    BY DEF IInv, Types
  <2> QED BY <2>1, <2>2 DEF Nowhere, NoHash
<1>4. ASSUME chain # "public"
      PROVE  Sent' >= Before[script'.at] /\ (chain = "local" => trust # "after reset")
  <2>1. script.config[c].address >= Place[c]
    BY <1>3, <1>4 DEF Believable, Places, Placed
  <2>2. Sent >= Place[c]
    BY <1>2, <1>3, <2>1, InOrder DEF Sent
  <2>3. ASSUME chain = "local", trust = "after reset" PROVE FALSE
    <3>1. Sent <= Place[c] - 1
      BY <1>0, <1>4, <2>3, StepFacts, InOrder
    <3> QED BY <1>2, <2>2, <3>1, InOrder
  <2> QED BY <1>1, <1>2, <2>2, <2>3, InOrder
<1> QED BY <1>0, <1>1, <1>2, <1>4, NextBelieved

LEMMA MineBelieved == ASSUME IInv, Believable, Mine PROVE Believable'
<1>0. /\ UNCHANGED <<chain, file, script, trust>>
      /\ nonce' = nonce + 1 /\ Len(pending') = Len(pending) - 1 /\ nonce \in Nat
      /\ pending \in Seq(Tx) /\ Len(pending) \in Nat \ {0} /\ Head(pending) = pending[1]
      /\ \A k \in 1 .. Len(pending') :
           pending'[k] = pending[k + 1] /\ k + 1 \in 1 .. Len(pending) /\ k \in Nat
  <2>1. UNCHANGED <<chain, file, script, trust>> /\ pending # <<>>
    BY DEF Mine, rest
  <2>2. Head(pending) = pending[1]
    BY <2>1, Typed, TailFirst
  <2> QED BY <2>1, <2>2, CodeGrows
<1>1. Sent' = Sent
  BY <1>0 DEF Sent
<1>2. ASSUME chain # "public" PROVE Places'
  <2>1. Places
    BY <1>2 DEF Believable
  <2>2. nonce + 1 >= Place[pending[1].what]
    <3>1. 1 \in 1 .. Len(pending)
      BY <1>0
    <3> QED BY <2>1, <3>1 DEF Places
  <2>3. Placed(file)' /\ Placed(script.config)'
    BY <1>0, <2>1 DEF Places, Placed
  <2>4. \A n \in DOMAIN code' : n >= Place[code'[n].what]
    BY <2>1, <2>2, CodeGrows DEF Places
  <2>5. \A k \in 1 .. Len(pending') : nonce' + k >= Place[pending'[k].what]
    <3> TAKE k \in 1 .. Len(pending')
    <3>1. nonce + (k + 1) >= Place[pending[k + 1].what]
      BY <1>0, <2>1 DEF Places
    <3>2. nonce' + k = nonce + (k + 1)
      BY <1>0
    <3> QED BY <1>0, <3>1, <3>2
  <2>6. \A x \in known' : nonce' >= Place[x]
    <3> TAKE x \in known'
    <3>1. x \in known \/ x = pending[1].what
      BY <1>0 DEF Mine
    <3>2. CASE x = pending[1].what
      BY <1>0, <2>2, <3>2
    <3>3. CASE x \in known
      <4>1. nonce >= Place[x]
        BY <2>1, <3>3 DEF Places
      <4>2. x \in {"PoseidonT3", "PoseidonT2", "entrypoint", "proxy"}
        BY <3>3 DEF IInv, Types, Hasher
      <4>3. Place[x] \in Nat
        BY <4>2, Order
      <4> QED BY <1>0, <4>1, <4>3
    <3> QED BY <3>1, <3>2, <3>3
  <2>7. keyless' # "unsent" => nonce' >= Place["fund"]
    <3> SUFFICES ASSUME keyless' # "unsent" PROVE nonce' >= Place["fund"]
      OBVIOUS
    <3>1. keyless # "unsent" \/ pending[1].what = "fund"
      BY <1>0 DEF Mine
    <3>2. CASE keyless # "unsent"
      <4>1. nonce >= 3
        BY <2>1, <3>2, Order DEF Places
      <4> QED BY <1>0, <4>1, Order
    <3>3. CASE pending[1].what = "fund"
      BY <1>0, <2>2, <3>3
    <3> QED BY <3>1, <3>2, <3>3
  <2>8. StepPlaced'
    BY <1>0, <1>1, <2>1 DEF Places, StepPlaced
  <2> QED BY <2>3, <2>4, <2>5, <2>6, <2>7, <2>8 DEF Places
<1>3. ASSUME NEW cfg, NEW c, TrueOf(cfg, c) PROVE TrueOf(cfg, c)'
  BY <1>3, CodeGrows DEF TrueOf
<1>4. FirstRun'
  BY <1>0, <1>1, CodeGrows DEF Believable, FirstRun, TrueOf
<1>5. chain # "hardhat" /\ trust = "yes" => TruthfulIn(file)' /\ TruthfulIn(script.config)'
  BY <1>0, CodeGrows DEF Believable, Truth, TruthfulIn, TrueOf
<1>6. ASSUME chain # "hardhat", trust # "lost"
      PROVE  /\ \A n \in DOMAIN code' : HasVerifier(code[n])'
             /\ \A k \in 1 .. Len(pending') : HasVerifier(pending[k])'
  <2>1. /\ \A n \in DOMAIN code : HasVerifier(code[n])
        /\ \A k \in 1 .. Len(pending) : HasVerifier(pending[k])
    BY <1>6 DEF Believable, Truth
  <2>2. \A n \in DOMAIN code' : HasVerifier(code'[n])
    <3>1. 1 \in 1 .. Len(pending)
      BY <1>0
    <3> QED BY <2>1, <3>1, CodeGrows
  <2>3. \A k \in 1 .. Len(pending') : HasVerifier(pending'[k])
    BY <1>0, <2>1
  <2> QED BY <2>2, <2>3, CodeGrows DEF HasVerifier
<1>7. Truth'
  BY <1>0, <1>5, <1>6 DEF Believable, Truth
<1> QED BY <1>0, <1>2, <1>4, <1>7 DEF Believable

LEMMA CreatesBelieved ==
  ASSUME IInv, Believable, NEW c \in Contract, Creates(c) PROVE Believable'
<1> DEFINE tx == CreationOf(c)
<1>0. /\ script.at = c /\ script.await = 0 /\ UNCHANGED <<chain, code, nonce, known, keyless>>
      /\ UNCHANGED <<file, trust>> /\ tx \in Tx /\ tx.what = c /\ Send(tx)
      /\ c = "factory" => tx.uses.verifier = script.config.verifier.address
      /\ script'.at = script.at /\ script'.config = script.config
      /\ script'.await = Sent + 1
  BY CreationSent DEF Creates, rest, Sent
<1> HIDE DEF tx
<1>1. Sent \in Nat /\ Sent' = Sent + 1
  BY <1>0, SentMore, Typed
<1>2. ASSUME chain # "public" PROVE Places'
  <2>1. Places
    BY <1>2 DEF Believable
  <2>2. Sent >= Place[c] - 1
    BY <1>0, <1>2, StepFacts, InOrder
  <2>3. Sent + 1 >= Place[tx.what]
    BY <1>0, <1>1, <2>2, InOrder
  <2>4. Placed(file)' /\ Placed(script.config)'
    BY <1>0, <2>1 DEF Places, Placed
  <2>5. StepPlaced'
    <3>1. Sent + 1 > Place[c] - 1
      BY <1>1, <2>2, InOrder
    <3>2. Before[script'.at] = Place[c] - 1 /\ script'.await # 0
      BY <1>0, <1>1, InOrder
    <3> QED BY <1>0, <3>1, <3>2 DEF StepPlaced
  <2> QED BY <1>0, <2>1, <2>3, <2>4, <2>5, PlacesStay
<1>3. FirstRun'
  <2>1. Sent + 1 # 0
    BY <1>1
  <2>2. Before[script.at] \in Nat
    BY Typed
  <2>3. Sent <= Before[script.at] => Sent' <= Before[script.at] + 1
    BY <1>1, <2>2
  <2>4. chain = "local" /\ trust = "after reset" => Sent' <= Before[script.at] + 1
    BY <1>0, <2>3, StepFacts
  <2>5. chain = "local" /\ trust = "after reset" =>
          \A d \in Contract : Before[script.at] >= Place[d] => TrueOf(script.config, d)'
    BY <1>0 DEF Believable, FirstRun, TrueOf
  <2> QED BY <1>0, <2>1, <2>4, <2>5 DEF FirstRun
<1>4. ASSUME chain # "hardhat", trust # "lost", c = "factory"
      PROVE  HasVerifier(tx)
  <2>1. script.config.verifier # Nowhere
    BY <1>0, <1>4 DEF IInv, Progress
  <2>2. TrueOf(script.config, "verifier")
    <3>1. CASE trust = "yes"
      BY <1>4, <3>1 DEF Believable, Truth, TruthfulIn, Contract
    <3>2. CASE trust = "after reset"
      <4>1. chain = "local"
        BY <1>4, <3>2, Typed DEF Believable, Truth, Chain
      <4>2. Before[script.at] >= Place["verifier"]
        BY <1>0, <1>4, Order
      <4> QED BY <3>2, <4>1, <4>2 DEF Believable, FirstRun, Contract
    <3> QED BY <1>4, <3>1, <3>2, Typed
  <2> QED BY <1>0, <1>4, <2>1, <2>2 DEF TrueOf, HasVerifier
<1>5. Truth'
  <2>1. chain # "hardhat" /\ trust = "yes" => TruthfulIn(file)' /\ TruthfulIn(script.config)'
    BY <1>0 DEF Believable, Truth, TruthfulIn, TrueOf
  <2>2. ASSUME chain # "hardhat", trust # "lost"
        PROVE  /\ \A n \in DOMAIN code' : HasVerifier(code[n])'
               /\ \A k \in 1 .. Len(pending') : HasVerifier(pending[k])'
    <3>1. /\ \A n \in DOMAIN code : HasVerifier(code[n])
          /\ \A k \in 1 .. Len(pending) : HasVerifier(pending[k])
      BY <2>2 DEF Believable, Truth
    <3>2. HasVerifier(tx)
      BY <1>0, <1>4, <2>2 DEF HasVerifier
    <3>3. \A k \in 1 .. Len(pending') : HasVerifier(pending'[k])
      BY <1>0, <3>1, <3>2, SendsLast
    <3> QED BY <1>0, <3>1, <3>3 DEF HasVerifier
  <2> QED BY <1>0, <2>1, <2>2 DEF Believable, Truth
<1> QED BY <1>0, <1>2, <1>3, <1>5 DEF Believable

LEMMA DeployBelieved ==
  ASSUME IInv, Believable, NEW c \in Contract, Deploy(c) PROVE Believable'
BY DeployCases, SkipBelieved, CreatesBelieved

LEMMA AwaitedBelieved == ASSUME IInv, Believable, Awaited PROVE Believable'
<1>0. PICK cfg : cfg = Deployed(script.at)
  OBVIOUS
<1>1. /\ script.await # 0 /\ script.await <= nonce
      /\ script.at \in Contract \cup {"entrypoint"}
      /\ \A c \in Contract : c # script.at => cfg[c] = script.config[c]
      /\ script'.at = After[script.at] /\ script'.await = 0 /\ script'.config = cfg
  BY <1>0, AwaitedGets
<1>2. script.at \in Contract =>
        /\ cfg[script.at].address = script.await
        /\ TrueOf(cfg, script.at)
  <2> SUFFICES ASSUME script.at \in Contract
               PROVE  cfg[script.at].address = script.await /\ TrueOf(cfg, script.at)
    OBVIOUS
  <2>1. /\ cfg[script.at] = [address |-> script.await, hash |-> code[script.await].hash]
        /\ script.await \in DOMAIN code /\ Expected(code[script.await])
    BY <1>0, AwaitedGets
  <2> QED BY <2>1 DEF TrueOf, Expected
<1>3. UNCHANGED <<chain, code, nonce, pending, known, keyless, file, trust>>
  BY <1>0, AwaitedGets DEF chainVars, rest
<1>4. Sent' = Sent /\ Sent \in Nat /\ nonce <= Sent /\ nonce \in Nat /\ script.await \in Nat
  <2>1. nonce \in Nat /\ Len(pending) \in Nat /\ script.await \in Nat
    BY Typed
  <2> QED BY <1>3, <2>1 DEF Sent
<1>5. /\ Before[script.at] \in Nat /\ Before[After[script.at]] = Before[script.at] + 1
      /\ script.at \in Contract => Place[script.at] = Before[script.at] + 1
      /\ \A c \in Contract :
           Before[After[script.at]] >= Place[c] => c = script.at \/ Before[script.at] >= Place[c]
  <2>1. CASE script.at \in Contract
    <3>1. /\ Place[script.at] \in Nat /\ Before[script.at] = Place[script.at] - 1
          /\ Before[After[script.at]] = Place[script.at]
          /\ \A d \in Contract : Before[After[script.at]] >= Place[d] =>
               d = script.at \/ Before[script.at] >= Place[d]
      BY <2>1, InOrder
    <3>2. Before[script.at] \in Nat
      BY Typed
    <3> QED BY <3>1, <3>2
  <2>2. CASE script.at = "entrypoint"
    BY <2>2, AfterStep, Order DEF Contract
  <2> QED BY <1>1, <2>1, <2>2
<1>6. ASSUME chain # "public" PROVE Places'
  <2>1. Places
    BY <1>6 DEF Believable
  <2>2. script.await > Before[script.at]
    BY <1>1, <2>1 DEF Places, StepPlaced
  <2>3. Placed(file)' /\ Placed(script.config)'
    <3>1. Placed(file)'
      BY <1>3, <2>1 DEF Places, Placed
    <3>2. ASSUME NEW c \in Contract, cfg[c] # Nowhere PROVE cfg[c].address >= Place[c]
      <4>1. CASE c = script.at
        BY <1>2, <1>4, <1>5, <2>2, <4>1
      <4>2. CASE c # script.at
        BY <1>1, <2>1, <3>2, <4>2 DEF Places, Placed
      <4> QED BY <4>1, <4>2
    <3> QED BY <1>1, <3>1, <3>2 DEF Placed
  <2>4. StepPlaced'
    <3>1. Sent >= Before[script.at] + 1
      BY <1>1, <1>4, <1>5, <2>2
    <3> QED BY <1>1, <1>4, <1>5, <3>1 DEF StepPlaced
  <2> QED BY <1>3, <2>1, <2>3, <2>4, PlacesStay
<1>7. \A c \in Contract : c # script.at => (TrueOf(script.config, c) => TrueOf(cfg, c))
  BY <1>1 DEF TrueOf
<1>8. \A c \in Contract : TrueOf(cfg, c) => TrueOf(script.config, c)'
  BY <1>1, <1>3 DEF TrueOf
<1>9. FirstRun'
  <2>1. chain = "local" /\ trust = "after reset" => Sent' <= Before[script'.at]
    BY <1>1, <1>4, <1>5 DEF Believable, FirstRun
  <2>2. chain = "local" /\ trust = "after reset" =>
          \A c \in Contract : Before[script'.at] >= Place[c] => TrueOf(cfg, c)
    BY <1>1, <1>2, <1>5, <1>7 DEF Believable, FirstRun
  <2> QED BY <1>1, <1>3, <1>8, <2>1, <2>2 DEF FirstRun
<1>10. Truth'
  <2>1. chain # "hardhat" /\ trust = "yes" => TruthfulIn(file)'
    BY <1>3 DEF Believable, Truth, TruthfulIn, TrueOf
  <2>2. chain # "hardhat" /\ trust = "yes" => TruthfulIn(script.config)'
    BY <1>2, <1>7, <1>8 DEF Believable, Truth, TruthfulIn
  <2> QED BY <1>3, <2>1, <2>2 DEF Believable, Truth, HasVerifier
<1> QED BY <1>3, <1>6, <1>9, <1>10 DEF Believable

LEMMA WriteFileBelieved == ASSUME IInv, Believable, WriteFile PROVE Believable'
<1>1. /\ script.at = "write" /\ script'.at = "idle" /\ script'.await = 0 /\ script'.config = NoFile
      /\ UNCHANGED <<chain, code, nonce, pending, known, keyless>>
      /\ file' = IF chain = "hardhat" THEN file ELSE script.config
      /\ trust' = IF trust = "after reset" /\ chain # "hardhat" THEN "yes" ELSE trust
  BY IdleTyped DEF WriteFile, At, chainVars
<1>2. Placed(NoFile) /\ TruthfulIn(NoFile)
  BY DEF Placed, TruthfulIn, TrueOf, NoFile
<1>3. StepPlaced'
  <2>1. Sent' = Sent
    BY <1>1 DEF Sent
  <2>2. Sent \in Nat
    BY Typed
  <2>3. Before["idle"] = 0
    BY Order
  <2>4. script'.at = "idle" /\ script'.await = 0
    BY <1>1
  <2> QED BY <2>1, <2>2, <2>3, <2>4 DEF StepPlaced
<1>4. ASSUME chain # "public" PROVE Places'
  <2>1. Places
    BY <1>4 DEF Believable
  <2>2. Placed(file)' /\ Placed(script.config)'
    BY <1>1, <1>2, <2>1 DEF Places, Placed
  <2> QED BY <1>1, <1>3, <2>1, <2>2, PlacesStay
<1>5. FirstRun'
  BY <1>1 DEF FirstRun
<1>6. chain # "hardhat" /\ trust' = "yes" => TruthfulIn(file)' /\ TruthfulIn(script.config)'
  <2> SUFFICES ASSUME chain # "hardhat", trust' = "yes"
               PROVE  TruthfulIn(file)' /\ TruthfulIn(script.config)'
    OBVIOUS
  <2>1. TruthfulIn(script.config)
    <3>1. CASE trust = "yes"
      BY <3>1 DEF Believable, Truth
    <3>2. CASE trust = "after reset"
      <4>1. chain = "local"
        BY <3>2, Typed DEF Believable, Truth, Chain
      <4>2. \A c \in Contract : Before["write"] >= Place[c]
        BY Order DEF Contract
      <4> QED BY <1>1, <3>2, <4>1, <4>2 DEF Believable, FirstRun, TruthfulIn
    <3> QED BY <1>1, <3>1, <3>2
  <2> QED BY <1>1, <1>2, <2>1 DEF TruthfulIn, TrueOf
<1>7. Truth'
  BY <1>1, <1>6 DEF Believable, Truth, HasVerifier
<1> QED BY <1>1, <1>4, <1>5, <1>7 DEF Believable

LEMMA ResetBelieved == ASSUME IInv, Believable, Reset PROVE Believable'
<1>1. /\ chain' = chain /\ chain # "public" /\ nonce' = 0
      /\ known' = {} /\ keyless' = "unsent" /\ trust' = "after reset" /\ file' = file
      /\ script'.at = "idle" /\ script'.await = 0 /\ script'.config = NoFile
  BY IdleTyped DEF Reset, rest
<1>2. DOMAIN code' = {} /\ Len(pending') = 0 /\ 1 .. Len(pending') = {}
  <2>1. code' = <<>> /\ pending' = <<>>
    BY DEF Reset
  <2>2. Len(<<>>) = 0 /\ DOMAIN <<>> = 1 .. 0
    BY EmptySeq
  <2>3. 1 .. 0 = {}
    OBVIOUS
  <2>4. DOMAIN code' = {}
    BY <2>1, <2>2, <2>3, Zenon
  <2>5. Len(pending') = 0
    BY <2>1, <2>2, Zenon
  <2> QED BY <2>3, <2>4, <2>5
<1>3. Sent' = 0 /\ script'.at = "idle" /\ script'.await = 0
  <2>1. nonce' = 0 /\ Len(pending') = 0
    BY <1>1, <1>2
  <2>2. Sent' = 0
    BY <2>1 DEF Sent
  <2> QED BY <1>1, <2>2
<1>4. Before["idle"] = 0 /\ \A c \in Contract : ~ 0 >= Place[c]
  BY Order DEF Contract
<1>5. Places'
  <2>1. Placed(file)' /\ Placed(script.config)'
    BY <1>1 DEF Believable, Places, Placed, NoFile
  <2>2. StepPlaced'
    BY <1>3, <1>4 DEF StepPlaced
  <2> QED BY <1>1, <1>2, <2>1, <2>2 DEF Places
<1>6. FirstRun'
  <2>1. Sent' <= Before[script'.at]
    BY <1>3, <1>4
  <2>2. \A c \in Contract : ~ Before[script'.at] >= Place[c]
    BY <1>3, <1>4
  <2> QED BY <1>3, <2>1, <2>2 DEF FirstRun
<1>7. Truth'
  <2>1. /\ chain' # "public" /\ trust' # "yes"
        /\ chain' = "hardhat" => file' = NoFile
    BY <1>1 DEF Believable, Truth
  <2> QED BY <1>2, <2>1 DEF Truth
<1> QED BY <1>1, <1>5, <1>6, <1>7 DEF Believable

LEMMA StepBelieved == ASSUME IInv, Believable, [Next]_vars PROVE Believable'
<1>1. CASE Next
  <2>1. CASE DeployEntryPoint \/ DeployBundler \/ FundProxy \/ SendProxy
    BY <2>1, DeployEntryPointBelieved, DeployBundlerBelieved, FundProxyBelieved,
       SendProxyBelieved
  <2>2. CASE \E h \in Hasher : SendHasher(h)
    BY <2>2, SendHasherBelieved
  <2>3. CASE \E c \in Contract : Deploy(c)
    BY <2>3, DeployBelieved
  <2>4. CASE Mine \/ Awaited \/ WriteFile \/ Reset
    BY <2>4, MineBelieved, AwaitedBelieved, WriteFileBelieved, ResetBelieved
  <2>5. CASE MineProxy \/ Start \/ Dies
    BY <2>5, MineProxyBelieved, StartBelieved, DiesBelieved
  <2>6. CASE \E c \in Contract, b \in 1 .. MaxBuild : Rebuild(c, b)
    BY <2>6, RebuildBelieved
  <2> QED BY <1>1, <2>1, <2>2, <2>3, <2>4, <2>5, <2>6 DEF Next, ScriptStep
<1>2. CASE UNCHANGED vars
  BY <1>2, StutterBelieved
<1> QED BY <1>1, <1>2

\* What the script and its file believe stays true, or known to be doubtful, however often a
\* chain is started again under them.
LEMMA StaysBelievable == Spec => []Believable
<1>1. Init => Believable
  BY BelievableInit
<1>2. IInv /\ Believable /\ [Next]_vars => Believable'
  BY StepBelieved
<1> QED BY <1>1, <1>2, InductiveInvariant, PTL DEF Spec

\* After any number of runs, however they end, of rebuilds and of new starts of the chain: what
\* the file says is true, its addresses hold the contracts it names, from the builds whose hashes
\* it has, unless a run died after a new start before one came through.
THEOREM FileIsTruthful == Spec => []FileTruthful
<1>1. IInv /\ Believable => FileTruthful
  <2> SUFFICES ASSUME Truth, trust = "yes", NEW c \in Contract, file[c] # Nowhere
               PROVE  /\ file[c].address \in DOMAIN code
                      /\ code[file[c].address].what = c
                      /\ code[file[c].address].hash = file[c].hash
    BY DEF Believable, FileTruthful
  <2>1. chain # "hardhat"
    BY DEF Truth, NoFile
  <2> QED BY <2>1 DEF Truth, TruthfulIn, TrueOf
<1> QED BY <1>1, InductiveInvariant, StaysBelievable, PTL

\* Likewise the factory of the file was linked with the MerkleTree of the file, and its verifier
\* is there.
THEOREM FactoryIsWorking == Spec => []FactoryWorks
<1>1. IInv /\ Believable => FactoryWorks
  <2> SUFFICES ASSUME IInv, Truth, trust = "yes", file.factory # Nowhere
               PROVE  LET factory == code[file.factory.address] IN
                        /\ factory.uses.merkle = file.merkle.address
                        /\ factory.uses.verifier \in DOMAIN code
                        /\ code[factory.uses.verifier].what = "verifier"
    BY DEF Believable, FactoryWorks
  <2>1. chain # "hardhat"
    BY DEF Truth, NoFile, Contract
  <2>2. /\ file.factory.address \in DOMAIN code
        /\ code[file.factory.address].what = "factory"
        /\ code[file.factory.address].hash = file.factory.hash
    BY <2>1 DEF Truth, TruthfulIn, TrueOf, Contract
  <2>3. code[file.factory.address].uses.merkle = file.factory.hash.merkle
    BY <2>2 DEF IInv, CreationsSound, Sound
  <2>4. file.factory.hash.merkle = file.merkle.address
    BY DEF IInv, FileLinked
  <2>5. HasVerifier(code[file.factory.address])
    BY <2>1, <2>2 DEF Truth
  <2> QED BY <2>2, <2>3, <2>4, <2>5 DEF HasVerifier
<1> QED BY <1>1, InductiveInvariant, StaysBelievable, PTL
=============================================================================
