-------------------------------- MODULE Node --------------------------------
(***************************************************************************)
(* The life of a node over several runs of the program (cmd/main.go and    *)
(* cmd/server/main.go): what it finds in wallet.dat and blockchain.dat at  *)
(* the start, what it mines, what the automatic saves and the save on exit *)
(* write, and what is left when it ends or is killed on the way.  Any file *)
(* operation may fail, and any error of a load starts afresh.              *)
(*                                                                         *)
(* The command line program takes its commands from standard input, one at *)
(* a time: mine or exit, or one of the others, which leave all of this as  *)
(* it is.  Once the input has ended its prompt goes on returning empty     *)
(* lines.  The server mines on requests, which it serves together, and     *)
(* saves on a signal while it goes on serving.                             *)
(*                                                                         *)
(* The two saves differ: AddBlock writes the chain with encoding/gob,      *)
(* SaveBlockchain writes JSON, and LoadBlockchain reads JSON only.  And    *)
(* gob numbers types in the order a process first encodes them: a process  *)
(* that has just saved a new wallet hashes its transactions, and with them *)
(* its blocks, under another number than one that loaded its wallet.       *)
(***************************************************************************)
EXTENDS Integers, Sequences

CONSTANTS Req,          \* the requests to mine that can be served together
          MaxSessions,  \* bound: how often the program is started
          MaxBlocks     \* bound: the length up to which a chain is mined

ASSUME BoundsAssumption == MaxSessions \in Nat /\ MaxBlocks \in Nat

VARIABLES
  phase,       \* where the process stands; "down" when there is none
  session,     \* how often the program has been started
  key,         \* the wallet in memory, numbered by the session that made it
  typeID,      \* the number gob has for Transaction in this process
  walletFile,  \* wallet.dat: "none", "torn" or "whole", and its key
  chainFile,   \* blockchain.dat: its format, and its blocks if it is JSON
  Blocks,      \* the chain in memory
  loaded,      \* the length it had when the program came up
  pc,          \* [Req -> where the handler of the request stands]
  stdin,       \* "open" or "ended"; "none" for the server
  lastSaved,   \* history: the chain the last save on exit set out to write
  autoSaved,   \* history: an automatic save has ended since that one
  clean,       \* history: that save ended, and nothing was mined since
  raced,       \* history: the sessions in which two requests mined at once
  cutOff       \* history: the sessions whose input ended at the prompt

memory == <<key, typeID, Blocks, loaded, pc, stdin>>
history == <<lastSaved, autoSaved, clean, raced, cutOff>>
vars == <<phase, session, walletFile, chainFile, memory, history>>

NoFile == [format |-> "none", blocks |-> <<>>]
Torn == [format |-> "torn", blocks |-> <<>>]
Gob == [format |-> "gob", blocks |-> <<>>]
Json(chain) == [format |-> "json", blocks |-> chain]

(* A block knows the session that mined it, the wallet its coinbase pays,  *)
(* the number it was hashed under and whether it names the block before it *)
(* on its chain; a genesis block pays nobody and has nothing to hash.      *)
GenesisBlock == [session |-> session, key |-> 0, typeID |-> 0, linked |-> TRUE]
NewBlock(linked) == [session |-> session, key |-> key, typeID |-> typeID, linked |-> linked]

(* Wallet is the first type a process encodes when it saves a new wallet.  *)
FirstTypeID == 64

Idle == \A r \in Req : pc[r] = "idle"

Init ==
  /\ phase = "down" /\ session = 0
  /\ key = 0 /\ typeID = FirstTypeID /\ Blocks = <<>> /\ loaded = 0
  /\ pc = [r \in Req |-> "idle"] /\ stdin = "none"
  /\ walletFile = [state |-> "none", key |-> 0] /\ chainFile = NoFile
  /\ lastSaved = <<>> /\ autoSaved = FALSE /\ clean = FALSE
  /\ raced = {} /\ cutOff = {}

Start == phase = "down" /\ session < MaxSessions /\ session' = session + 1

LoadWallet ==
  /\ Start /\ walletFile.state = "whole"
  /\ phase' = "load" /\ key' = walletFile.key /\ stdin' \in {"none", "open"}
  /\ UNCHANGED <<walletFile, chainFile, typeID, Blocks, loaded, pc, history>>

(* A mutant: a wallet that cannot be saved is used all the same. *)
NewWalletUnsaved ==
  /\ Start /\ key' = session' /\ stdin' \in {"none", "open"}
  /\ \/ phase' = "wallet" /\ walletFile' = [state |-> "torn", key |-> 0]
     \/ phase' = "load" /\ UNCHANGED walletFile
  /\ UNCHANGED <<chainFile, typeID, Blocks, loaded, pc, history>>

(* On any error of LoadWallet, be the file whole or not, a new wallet: its *)
(* Save empties the file, or fails and ends the program.                   *)
NewWallet ==
  /\ Start
  /\ \/ /\ phase' = "wallet" /\ key' = session' /\ stdin' \in {"none", "open"}
        /\ walletFile' = [state |-> "torn", key |-> 0]
     \/ UNCHANGED <<phase, key, stdin, walletFile>>
  /\ UNCHANGED <<chainFile, typeID, Blocks, loaded, pc, history>>

(* A mutant: it forgets that Wallet takes a number. *)
SaveWalletUncounted ==
  /\ phase = "wallet" /\ phase' = "load"
  /\ walletFile' = [state |-> "whole", key |-> key]
  /\ UNCHANGED <<session, chainFile, memory, history>>

(* Save encodes the new wallet; its error ends the program, as Crash does. *)
SaveWallet ==
  /\ phase = "wallet" /\ phase' = "load"
  /\ walletFile' = [state |-> "whole", key |-> key]
  /\ typeID' = FirstTypeID + 1
  /\ UNCHANGED <<session, chainFile, key, Blocks, loaded, pc, stdin, history>>

(* A mutant: what was loaded is encoded, before any transaction. *)
LoadBlockchainEncoding ==
  /\ phase = "load" /\ phase' = "ready"
  /\ chainFile.format = "json" /\ Blocks' = chainFile.blocks /\ typeID' = typeID + 1
  /\ loaded' = Len(Blocks')
  /\ UNCHANGED <<session, walletFile, chainFile, key, pc, stdin, history>>

LoadBlockchain ==
  /\ phase = "load" /\ phase' = "ready"
  /\ chainFile.format = "json" /\ Blocks' = chainFile.blocks
  /\ loaded' = Len(Blocks')
  /\ UNCHANGED <<session, walletFile, chainFile, key, typeID, pc, stdin, history>>

(* On any error of LoadBlockchain, be the file whole or not, a new chain.  *)
NewBlockchain ==
  /\ phase = "load" /\ phase' = "ready"
  /\ Blocks' = <<GenesisBlock>> /\ loaded' = 1
  /\ UNCHANGED <<session, walletFile, chainFile, key, typeID, pc, stdin, history>>

loadOrCreateBlockchain == LoadBlockchain \/ NewBlockchain
-----------------------------------------------------------------------------
(***************************************************************************)
(* Mining.  The steps of a handler between its reads and stores of the     *)
(* chain are in Server: of requests that mine at once it shows that the    *)
(* blocks there before stay, that blocks of theirs are lost, and that a    *)
(* block may name another than the one before it.  Here such a session has *)
(* any chain of its own blocks after those it came up with.                *)
(***************************************************************************)
Serving == phase = "ready" \/ (phase \in {"exit", "saved"} /\ stdin = "none")

handleMine(r) ==
  /\ Serving /\ pc[r] = "idle" /\ stdin # "ended"
  /\ stdin = "open" => Idle
  /\ pc' = [pc EXCEPT ![r] = "mining"]
  /\ clean' = FALSE
  /\ raced' = IF \E s \in Req : pc[s] = "mining" THEN raced \cup {session} ELSE raced
  /\ UNCHANGED <<phase, session, walletFile, chainFile, key, typeID, Blocks, loaded, stdin,
                 lastSaved, autoSaved, cutOff>>

Links == UNION {[1..n -> BOOLEAN] : n \in 1..(MaxBlocks - loaded)}
Tangled(links) == SubSeq(Blocks, 1, loaded) \o [i \in DOMAIN links |-> NewBlock(links[i])]

AddBlock(r) ==
  /\ pc[r] = "mining" /\ Len(Blocks) < MaxBlocks
  /\ IF session \in raced THEN \E links \in Links : Blocks' = Tangled(links)
                          ELSE Blocks' = Append(Blocks, NewBlock(TRUE))
  /\ pc' = [pc EXCEPT ![r] = "save"]
  /\ UNCHANGED <<phase, session, walletFile, chainFile, key, typeID, loaded, stdin, history>>

(* saveToFile: os.Create empties the file or fails, an error that is only  *)
(* reported. *)
SaveOpen(r) ==
  /\ pc[r] = "save"
  /\ \/ chainFile' = Torn /\ pc' = [pc EXCEPT ![r] = "encode"]
     \/ chainFile' = chainFile /\ pc' = [pc EXCEPT ![r] = "idle"]
  /\ UNCHANGED <<phase, session, walletFile, key, typeID, Blocks, loaded, stdin, history>>

(* A mutant: it writes what LoadBlockchain reads. *)
SaveEncodeJson(r) ==
  /\ pc[r] = "encode" /\ pc' = [pc EXCEPT ![r] = "idle"]
  /\ chainFile' = Json(Blocks) /\ autoSaved' = TRUE
  /\ UNCHANGED <<phase, session, walletFile, key, typeID, Blocks, loaded, stdin,
                 lastSaved, clean, raced, cutOff>>

(* The encoder writes in several pieces, each where its last one ended: to *)
(* the end, over a part of what others wrote meanwhile, or behind it.      *)
SaveEncode(r) ==
  /\ pc[r] = "encode" /\ pc' = [pc EXCEPT ![r] = "idle"]
  /\ \/ chainFile' = Gob /\ autoSaved' = TRUE
     \/ chainFile' \in {Torn, chainFile} /\ autoSaved' = autoSaved
  /\ UNCHANGED <<phase, session, walletFile, key, typeID, Blocks, loaded, stdin,
                 lastSaved, clean, raced, cutOff>>

Handler(r) == handleMine(r) \/ AddBlock(r) \/ SaveOpen(r) \/ SaveEncode(r)
-----------------------------------------------------------------------------
(* Scan returns false from now on, and Text an empty line each time.       *)
EndOfInput ==
  /\ phase = "ready" /\ stdin = "open" /\ Idle
  /\ stdin' = "ended" /\ cutOff' = cutOff \cup {session}
  /\ UNCHANGED <<phase, session, walletFile, chainFile, key, typeID, Blocks, loaded, pc,
                 lastSaved, autoSaved, clean, raced>>

(* A mutant: the end of the input ends the program as exit does. *)
ExitAtEnd ==
  /\ phase = "ready" /\ (stdin # "none" => Idle)
  /\ \/ phase' = "exit" /\ chainFile' = Torn /\ lastSaved' = Blocks
     \/ phase' = "saved" /\ UNCHANGED <<chainFile, lastSaved>>
  /\ clean' = FALSE
  /\ UNCHANGED <<session, walletFile, memory, autoSaved, raced, cutOff>>

(* The command exit at the prompt, or a signal to the server, whose        *)
(* handlers go on: SaveBlockchain empties the file and goes through the    *)
(* chain, or fails, and an error is only reported.                         *)
Exit ==
  /\ phase = "ready" /\ stdin # "ended" /\ (stdin = "open" => Idle)
  /\ \/ phase' = "exit" /\ chainFile' = Torn /\ lastSaved' = Blocks
     \/ phase' = "saved" /\ UNCHANGED <<chainFile, lastSaved>>
  /\ clean' = FALSE
  /\ UNCHANGED <<session, walletFile, memory, autoSaved, raced, cutOff>>

(* A mutant: the save on exit writes gob too. *)
SaveBlockchainGob ==
  /\ phase = "exit" /\ phase' = "saved"
  /\ chainFile' = Gob /\ autoSaved' = FALSE /\ clean' = Idle
  /\ UNCHANGED <<session, walletFile, memory, lastSaved, raced, cutOff>>

(***************************************************************************)
(* The JSON goes to the beginning of the file in one piece, and what else  *)
(* there is behind it is not read; or the write fails or is cut short, or  *)
(* empty entries take the place of blocks that had been there.             *)
(***************************************************************************)
SaveBlockchain ==
  /\ phase = "exit" /\ phase' = "saved"
  /\ \/ chainFile' = Json(lastSaved) /\ autoSaved' = FALSE /\ clean' = Idle
     \/ chainFile' \in {Torn, chainFile} /\ UNCHANGED <<autoSaved, clean>>
  /\ UNCHANGED <<session, walletFile, memory, lastSaved, raced, cutOff>>

(* What the process had in memory is gone with it, and the files stay.     *)
End ==
  /\ phase' = "down"
  /\ key' = 0 /\ typeID' = FirstTypeID /\ Blocks' = <<>> /\ loaded' = 0
  /\ pc' = [r \in Req |-> "idle"] /\ stdin' = "none"
  /\ UNCHANGED <<session, walletFile, chainFile, history>>

(* main returns, or the goroutine of the signal calls os.Exit, whatever    *)
(* the handlers are at.                                                    *)
Quit == phase = "saved" /\ End

(* The process is killed or panics; what it was writing stays as it is. *)
Crash == phase # "down" /\ End

Next == \/ LoadWallet \/ NewWallet \/ SaveWallet \/ loadOrCreateBlockchain
        \/ (\E r \in Req : Handler(r))
        \/ EndOfInput \/ Exit \/ SaveBlockchain \/ Quit \/ Crash

Spec == Init /\ [][Next]_vars

(* Of Validate what an own block of coinbases can fail: each block but the *)
(* first names the one before, and its hash is the one this process        *)
(* computes.                                                               *)
Recomputes(b) == b.typeID = typeID

Validate(chain) == \A i \in 2..Len(chain) : chain[i].linked /\ Recomputes(chain[i])
-----------------------------------------------------------------------------
Block == [session : Nat, key : Nat, typeID : Nat, linked : BOOLEAN]

(* The type of the state. *)
TypeOK ==
  /\ phase \in {"down", "wallet", "load", "ready", "exit", "saved"}
  /\ session \in Nat /\ key \in Nat /\ typeID \in Nat
  /\ walletFile \in [state : {"none", "torn", "whole"}, key : Nat]
  /\ chainFile \in [format : {"none", "torn", "gob", "json"}, blocks : Seq(Block)]
  /\ Blocks \in Seq(Block) /\ loaded \in 0..Len(Blocks)
  /\ pc \in [Req -> {"idle", "mining", "save", "encode"}]
  /\ stdin \in {"none", "open", "ended"}
  /\ lastSaved \in Seq(Block) /\ autoSaved \in BOOLEAN /\ clean \in BOOLEAN
  /\ raced \in SUBSET Nat /\ cutOff \in SUBSET Nat

AtWork == phase \in {"ready", "exit", "saved"}

(***************************************************************************)
(* The inductive invariant, in three parts.  The files: JSON is the chain  *)
(* of the last save on exit, and after a clean exit it is still there.     *)
(***************************************************************************)
FilesInv ==
  /\ TypeOK
  /\ chainFile.blocks = IF chainFile.format = "json" THEN lastSaved ELSE <<>>
  /\ autoSaved => chainFile.format # "json"
  /\ clean => chainFile = Json(lastSaved) /\ Idle /\ phase # "exit"
  /\ ~AtWork => Blocks = <<>> /\ Idle

(* The wallets: the one in use is the one on disk, the numbers a block was *)
(* hashed under tell who had made his wallet, and blocks pay the wallet of *)
(* their time.                                                             *)
Mined(b) ==
  /\ b.typeID = IF b.key = b.session THEN FirstTypeID + 1 ELSE FirstTypeID
  /\ b.key <= b.session /\ b.session <= session
  /\ b.linked \/ b.session \in raced
  /\ walletFile.state = "whole" => (b.key = walletFile.key <=> b.session >= walletFile.key)

WalletsInv ==
  /\ walletFile.key <= session
  /\ phase = "wallet" => key = session /\ walletFile.state = "torn"
  /\ phase = "load" \/ AtWork =>
       /\ walletFile = [state |-> "whole", key |-> key]
       /\ typeID = IF key = session THEN FirstTypeID + 1 ELSE FirstTypeID
  /\ phase \notin {"load", "ready", "exit", "saved"} => typeID = FirstTypeID
  /\ \A i \in 2..Len(Blocks) : Mined(Blocks[i])
  /\ \A i \in 2..Len(lastSaved) : Mined(lastSaved[i])

(* The inputs: a session that was cut off is over or at its prompt for     *)
(* good, and has left nothing to the sessions after it.                    *)
CutOffLost(chain) == \A i \in DOMAIN chain : chain[i].session \notin cutOff

SessionsInv ==
  /\ \A n \in cutOff : n <= session
  /\ session \in cutOff => phase = "down" \/ (phase = "ready" /\ stdin = "ended" /\ Idle)
  /\ stdin = "ended" => phase = "ready" /\ session \in cutOff
  /\ CutOffLost(lastSaved)
  /\ \A i \in DOMAIN lastSaved : lastSaved[i].session <= session
  /\ phase \in {"wallet", "load", "ready"} => \A i \in DOMAIN lastSaved : lastSaved[i].session < session
  /\ \A i \in DOMAIN Blocks : Blocks[i].session <= session
  /\ session \notin cutOff => CutOffLost(Blocks)

Inv == FilesInv /\ WalletsInv /\ SessionsInv

(* Whatever was interrupted or failed, a start has all of the chain of the *)
(* last save on exit or a new chain, never a part of one, another one or a *)
(* mixture.  Once that save has ended, with no request in hand, the file   *)
(* stays whole over all starts, failed loads and crashes until a request   *)
(* to mine or the next save on exit: only a load that fails on a whole     *)
(* file begins a new chain.                                                *)
RestartFinds ==
  [][loadOrCreateBlockchain =>
       \/ Blocks' = lastSaved /\ chainFile = Json(lastSaved)
       \/ Blocks' = <<GenesisBlock>> /\ (clean => chainFile = Json(lastSaved))]_vars

(* A node at work has its wallet on disk, so that a restart can spend what *)
(* it mines; and of its chain, over however many sessions and replaced     *)
(* wallets it was mined, just the blocks since that wallet was made paid   *)
(* it: what was mined before is lost to the node for good.                 *)
WalletOwnsItsBlocks ==
  AtWork =>
    /\ walletFile = [state |-> "whole", key |-> key]
    /\ \A i \in 2..Len(Blocks) : Blocks[i].key = key <=> Blocks[i].session >= key

(* A program that comes up has a chain that Validate accepts, unless a     *)
(* block of it was mined in a session where requests mined at once, or     *)
(* this session has made its wallet and that one had not, or the other way *)
(* round: for those that loaded it, and for those that made it, all hashes *)
(* are the same.                                                           *)
LoadedSessionsAgree ==
  [][loadOrCreateBlockchain /\ ~Validate(Blocks') =>
       \E i \in 2..Len(Blocks') :
         LET b == Blocks'[i]
         IN  b.session \in raced \/ (b.key = b.session) # (key = session)]_vars

(* The automatic save is no save: what it wrote since the last save on     *)
(* exit, by whatever sessions and however often, is never there again at a *)
(* start, which finds the file in a format it does not read and begins a   *)
(* new chain.                                                              *)
AutoSaveNotRead ==
  [][loadOrCreateBlockchain /\ autoSaved => Blocks' = <<GenesisBlock>>]_vars

(* When the input of a session ends without the command exit, no block it  *)
(* mined or genesis it made is on any chain that is saved or loaded later: *)
(* the prompt goes on for ever and the save on exit never comes.           *)
EndOfInputLoses ==
  /\ CutOffLost(chainFile.blocks)
  /\ session \notin cutOff => CutOffLost(Blocks)
=============================================================================
