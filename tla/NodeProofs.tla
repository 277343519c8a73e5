----------------------------- MODULE NodeProofs -----------------------------
(***************************************************************************)
(* Theorems about Node for any number of sessions, requests at a time and  *)
(* any chain length.                                                       *)
(***************************************************************************)
EXTENDS Node, SequenceTheorems, TLAPS

FileType == [format : {"none", "torn", "gob", "json"}, blocks : Seq(Block)]

LEMMA FileTypes ==
  /\ NoFile \in FileType /\ Torn \in FileType /\ Gob \in FileType
  /\ \A chain \in Seq(Block) : Json(chain) \in FileType
<1>1. <<>> \in Seq(Block)
  BY EmptySeq
<1> QED BY <1>1 DEF FileType, NoFile, Torn, Gob, Json

LEMMA NoBlocks == <<>> \in Seq(Block) /\ Len(<<>>) = 0 /\ DOMAIN <<>> = {}
  BY EmptySeq

(* What AddBlock adds are blocks of this session, after those before it or *)
(* among themselves in another order. *)
LEMMA Added ==
  ASSUME TypeOK, NEW r \in Req, AddBlock(r)
  PROVE  /\ Blocks' \in Seq(Block) /\ loaded' \in 0..Len(Blocks')
         /\ \A i \in 1..Len(Blocks') :
              \/ i \in 1..Len(Blocks) /\ Blocks'[i] = Blocks[i]
              \/ \E l \in BOOLEAN : Blocks'[i] = NewBlock(l) /\ (l \/ session \in raced)
<1>1. /\ Blocks \in Seq(Block) /\ Len(Blocks) \in Nat /\ loaded \in 0..Len(Blocks)
      /\ DOMAIN Blocks = 1..Len(Blocks) /\ loaded' = loaded /\ MaxBlocks \in Nat
  BY LenProperties, BoundsAssumption DEF TypeOK, AddBlock
<1>2. \A l \in BOOLEAN : NewBlock(l) \in Block
  BY DEF NewBlock, Block, TypeOK
<1>3. CASE session \notin raced
  <2>1. Blocks' = Append(Blocks, NewBlock(TRUE)) /\ NewBlock(TRUE) \in Block
    BY <1>2, <1>3 DEF AddBlock
  <2> DEFINE b == NewBlock(TRUE)
  <2>2. Blocks' = Append(Blocks, b) /\ b \in Block
    BY <2>1
  <2> HIDE DEF b
  <2>3. /\ Blocks' \in Seq(Block) /\ Len(Blocks') = Len(Blocks) + 1
        /\ \A i \in 1..Len(Blocks) : Blocks'[i] = Blocks[i]
        /\ Blocks'[Len(Blocks) + 1] = b
    BY <1>1, <2>2, AppendProperties
  <2>4. \A i \in 1..Len(Blocks') : i \in 1..Len(Blocks) \/ i = Len(Blocks) + 1
    BY <1>1, <2>3
  <2>5. b = NewBlock(TRUE)
    BY DEF b
  <2>6. ASSUME NEW i \in 1..Len(Blocks')
        PROVE  \/ i \in 1..Len(Blocks) /\ Blocks'[i] = Blocks[i]
               \/ \E l \in BOOLEAN : Blocks'[i] = NewBlock(l) /\ (l \/ session \in raced)
    <3>1. CASE i \in 1..Len(Blocks)
      BY <3>1, <2>3
    <3>2. CASE i = Len(Blocks) + 1
      <4>1. Blocks'[i] = NewBlock(TRUE)
        BY <3>2, <2>3, <2>5
      <4> QED BY <4>1
    <3> QED BY <3>1, <3>2, <2>4
  <2>7. loaded' \in 0..Len(Blocks')
    BY <1>1, <2>3
  <2> QED BY <2>3, <2>6, <2>7
<1>4. CASE session \in raced
  <2>1. PICK links \in Links : Blocks' = Tangled(links)
    BY <1>4 DEF AddBlock
  <2>2. PICK n \in 1..(MaxBlocks - loaded) : links \in [1..n -> BOOLEAN]
    BY <2>1 DEF Links
  <2> DEFINE s == SubSeq(Blocks, 1, loaded)
             t == [i \in 1..n |-> NewBlock(links[i])]
  <2>3. n \in Nat /\ DOMAIN links = 1..n
    BY <1>1, <2>2
  <2>4. t \in Seq(Block) /\ Len(t) = n /\ \A i \in 1..n : t[i] = NewBlock(links[i])
    <3>1. t \in [1..n -> Block]
      BY <1>2, <2>2
    <3>2. t \in Seq(Block)
      BY <3>1, <2>3, SeqDef
    <3>3. Len(t) \in Nat /\ 1..Len(t) = 1..n
      BY <3>2, LenProperties
    <3> QED BY <3>2, <3>3, <2>3
  <2>5. /\ s \in Seq(Block) /\ Len(s) = loaded
        /\ \A i \in 1..loaded : s[i] = Blocks[i]
    <3>1. \A i \in 1..loaded : Blocks[i] \in Block
      BY <1>1, ElementOfSeq
    <3>2. 1 \in Int /\ loaded \in Int
      BY <1>1
    <3>3. /\ s \in Seq(Block)
          /\ Len(s) = (IF 1 <= loaded THEN loaded - 1 + 1 ELSE 0)
          /\ \A i \in 1..(loaded - 1 + 1) : s[i] = Blocks[1 + i - 1]
      BY <3>1, <3>2, SubSeqProperties
    <3>4. Len(s) = loaded
      BY <3>3, <1>1
    <3>5. ASSUME NEW i \in 1..loaded PROVE s[i] = Blocks[i]
      <4>1. i \in 1..(loaded - 1 + 1) /\ 1 + i - 1 = i
        BY <1>1
      <4> QED BY <4>1, <3>3
    <3> QED BY <3>3, <3>4, <3>5
  <2>6. Blocks' = s \o t
    BY <2>1, <2>3 DEF Tangled
  <2> HIDE DEF s, t
  <2>7. /\ Blocks' \in Seq(Block) /\ Len(Blocks') = loaded + n
        /\ \A i \in 1..(loaded + n) :
             Blocks'[i] = IF i <= loaded THEN s[i] ELSE t[i - loaded]
    BY <2>4, <2>5, <2>6, ConcatProperties
  <2>8. ASSUME NEW i \in 1..Len(Blocks')
        PROVE  \/ i \in 1..Len(Blocks) /\ Blocks'[i] = Blocks[i]
               \/ \E l \in BOOLEAN : Blocks'[i] = NewBlock(l) /\ (l \/ session \in raced)
    <3>1. CASE i <= loaded
      <4>1. i \in 1..loaded /\ i \in 1..Len(Blocks) /\ i \in 1..(loaded + n)
        BY <1>1, <2>3, <3>1, <2>7
      <4> QED BY <4>1, <3>1, <2>5, <2>7
    <3>2. CASE ~(i <= loaded)
      <4>1. i - loaded \in 1..n /\ i \in 1..(loaded + n)
        BY <1>1, <2>3, <3>2, <2>7
      <4>2. Blocks'[i] = NewBlock(links[i - loaded]) /\ links[i - loaded] \in BOOLEAN
        BY <4>1, <3>2, <2>2, <2>4, <2>7
      <4> QED BY <4>2, <1>4
    <3> QED BY <3>1, <3>2
  <2>9. loaded' \in 0..Len(Blocks')
    BY <1>1, <2>3, <2>7
  <2> QED BY <2>7, <2>8, <2>9
<1> QED BY <1>3, <1>4

LEMMA Genesis ==
  ASSUME session \in Nat
  PROVE  /\ <<GenesisBlock>> \in Seq(Block) /\ Len(<<GenesisBlock>>) = 1
         /\ DOMAIN <<GenesisBlock>> = {1} /\ <<GenesisBlock>>[1] = GenesisBlock
         /\ GenesisBlock.session = session
<1>1. GenesisBlock \in Block /\ GenesisBlock.session = session
  BY DEF GenesisBlock, Block
<1> DEFINE g == GenesisBlock
<1>2. g \in Block
  BY <1>1
<1> HIDE DEF g
<1>3. <<g>> \in Seq(Block) /\ Len(<<g>>) = 1 /\ DOMAIN <<g>> = {1} /\ <<g>>[1] = g
  BY <1>2
<1> QED BY <1>1, <1>3 DEF g

LEMMA InitFiles == Init => FilesInv
<1> SUFFICES ASSUME Init PROVE FilesInv
  OBVIOUS
<1>1. TypeOK
  <2>1. chainFile \in FileType /\ walletFile \in [state : {"none", "torn", "whole"}, key : Nat]
    BY FileTypes DEF Init
  <2>2. Blocks \in Seq(Block) /\ lastSaved \in Seq(Block) /\ loaded \in 0..Len(Blocks)
    BY NoBlocks DEF Init
  <2>3. pc \in [Req -> {"idle", "mining", "save", "encode"}]
    BY DEF Init
  <2> QED BY <2>1, <2>2, <2>3 DEF Init, TypeOK, FirstTypeID, FileType
<1> QED BY <1>1 DEF Init, FilesInv, AtWork, Idle, NoFile

LEMMA StartFiles == FilesInv /\ (LoadWallet \/ NewWallet) => FilesInv'
<1> SUFFICES ASSUME FilesInv, LoadWallet \/ NewWallet PROVE FilesInv'
  OBVIOUS
<1>1. /\ phase = "down" /\ phase' \in {"down", "wallet", "load"}
      /\ session' = session + 1 /\ key' \in {key, walletFile.key, session + 1}
      /\ walletFile' \in {walletFile, [state |-> "torn", key |-> 0]}
      /\ stdin' \in {stdin, "none", "open"}
      /\ UNCHANGED <<chainFile, typeID, Blocks, loaded, pc, history>>
  BY DEF LoadWallet, NewWallet, Start
<1>2. TypeOK'
  <2>1. /\ session' \in Nat /\ key' \in Nat /\ stdin' \in {"none", "open", "ended"}
        /\ walletFile' \in [state : {"none", "torn", "whole"}, key : Nat]
    BY <1>1 DEF FilesInv, TypeOK
  <2> QED BY <2>1, <1>1 DEF FilesInv, TypeOK, history
<1> QED BY <1>1, <1>2 DEF FilesInv, AtWork, Idle, history

LEMMA LoadFiles == FilesInv /\ loadOrCreateBlockchain => FilesInv'
<1> SUFFICES ASSUME FilesInv, loadOrCreateBlockchain PROVE FilesInv'
  OBVIOUS
<1>1. /\ phase = "load" /\ phase' = "ready"
      /\ UNCHANGED <<session, walletFile, chainFile, key, typeID, pc, stdin, history>>
      /\ \/ Blocks' = chainFile.blocks /\ loaded' = Len(Blocks')
         \/ Blocks' = <<GenesisBlock>> /\ loaded' = 1
  BY DEF loadOrCreateBlockchain, LoadBlockchain, NewBlockchain
<1>2. /\ chainFile.blocks \in Seq(Block) /\ Len(chainFile.blocks) \in Nat
      /\ <<GenesisBlock>> \in Seq(Block) /\ Len(<<GenesisBlock>>) = 1
  BY Genesis, LenProperties DEF FilesInv, TypeOK
<1>3. Blocks' \in Seq(Block) /\ loaded' \in 0..Len(Blocks')
  <2>1. CASE Blocks' = chainFile.blocks /\ loaded' = Len(Blocks')
    <3>1. Len(Blocks') \in Nat
      BY <1>2, <2>1
    <3> QED BY <3>1, <1>2, <2>1
  <2>2. CASE Blocks' = <<GenesisBlock>> /\ loaded' = 1
    <3>1. Len(Blocks') = 1
      BY <1>2, <2>2
    <3> QED BY <3>1, <1>2, <2>2
  <2> QED BY <1>1, <2>1, <2>2
<1>4. TypeOK'
  BY <1>1, <1>3 DEF FilesInv, TypeOK, history
<1> QED BY <1>1, <1>4 DEF FilesInv, AtWork, Idle, history

LEMMA HandlerFiles ==
  ASSUME FilesInv, NEW r \in Req, Handler(r)
  PROVE  FilesInv'
<1>1. AtWork
  BY DEF FilesInv, Idle, Handler, handleMine, AddBlock, SaveOpen, SaveEncode, Serving, AtWork
<1>2. pc' \in [Req -> {"idle", "mining", "save", "encode"}] /\ phase' = phase
  BY DEF FilesInv, TypeOK, Handler, handleMine, AddBlock, SaveOpen, SaveEncode
<1>3. CASE handleMine(r)
  <2>1. raced' \in SUBSET Nat
    BY <1>3 DEF handleMine, FilesInv, TypeOK
  <2>2. TypeOK'
    BY <1>2, <1>3, <2>1 DEF handleMine, FilesInv, TypeOK
  <2> QED BY <1>1, <1>3, <2>2 DEF handleMine, FilesInv, AtWork
<1>4. CASE AddBlock(r)
  <2>1. ~clean
    BY <1>4 DEF AddBlock, FilesInv, Idle
  <2>2. TypeOK'
    <3>1. Blocks' \in Seq(Block) /\ loaded' \in 0..Len(Blocks')
      BY <1>4, Added DEF FilesInv
    <3> QED BY <1>2, <1>4, <3>1 DEF AddBlock, FilesInv, TypeOK, history
  <2> QED BY <1>1, <1>4, <2>1, <2>2 DEF AddBlock, FilesInv, AtWork, history
<1>5. CASE SaveOpen(r)
  <2>1. ~clean
    BY <1>5 DEF SaveOpen, FilesInv, Idle
  <2>2. chainFile' \in FileType /\ chainFile' \in {Torn, chainFile}
    BY <1>5, FileTypes DEF SaveOpen, FilesInv, TypeOK, FileType
  <2>3. TypeOK'
    BY <1>2, <1>5, <2>2 DEF SaveOpen, FilesInv, TypeOK, history, FileType
  <2> QED BY <1>1, <1>5, <2>1, <2>2, <2>3 DEF SaveOpen, FilesInv, AtWork, history, Torn
<1>6. CASE SaveEncode(r)
  <2>1. ~clean
    BY <1>6 DEF SaveEncode, FilesInv, Idle
  <2>2. chainFile' \in FileType /\ autoSaved' \in BOOLEAN
    BY <1>6, FileTypes DEF SaveEncode, FilesInv, TypeOK, FileType
  <2>3. TypeOK'
    BY <1>2, <1>6, <2>2 DEF SaveEncode, FilesInv, TypeOK, FileType
  <2>4. \/ chainFile' = Gob
        \/ chainFile' \in {Torn, chainFile} /\ autoSaved' = autoSaved
    BY <1>6 DEF SaveEncode
  <2> QED BY <1>1, <1>6, <2>1, <2>3, <2>4 DEF SaveEncode, FilesInv, AtWork, Torn, Gob
<1> QED BY <1>3, <1>4, <1>5, <1>6 DEF Handler

LEMMA EndFiles == FilesInv /\ (Quit \/ Crash) => FilesInv'
<1> SUFFICES ASSUME FilesInv, End PROVE FilesInv'
  BY DEF Quit, Crash
<1>1. Blocks' = <<>> /\ Blocks' \in Seq(Block) /\ loaded' \in 0..Len(Blocks')
  BY NoBlocks DEF End
<1>2. pc' \in [Req -> {"idle", "mining", "save", "encode"}] /\ Idle'
  BY DEF End, Idle
<1>3. TypeOK'
  BY <1>1, <1>2 DEF End, FilesInv, TypeOK, FirstTypeID, history
<1> QED BY <1>1, <1>2, <1>3 DEF End, FilesInv, AtWork, history

LEMMA ExitFiles == FilesInv /\ (EndOfInput \/ Exit \/ SaveBlockchain) => FilesInv'
<1> SUFFICES ASSUME FilesInv, EndOfInput \/ Exit \/ SaveBlockchain PROVE FilesInv'
  OBVIOUS
<1>1. CASE EndOfInput
  <2>1. TypeOK'
    BY <1>1 DEF EndOfInput, FilesInv, TypeOK
  <2> QED BY <1>1, <2>1 DEF EndOfInput, FilesInv, AtWork, Idle
<1>2. CASE Exit
  <2>1. chainFile' \in FileType /\ chainFile' \in {Torn, chainFile} /\ lastSaved' \in Seq(Block)
    BY <1>2, FileTypes DEF Exit, FilesInv, TypeOK, FileType
  <2>2. TypeOK'
    BY <1>2, <2>1 DEF Exit, FilesInv, TypeOK, FileType, memory
  <2>3. chainFile' = Torn \/ UNCHANGED <<chainFile, lastSaved>>
    BY <1>2 DEF Exit
  <2> QED BY <1>2, <2>2, <2>3 DEF Exit, FilesInv, AtWork, Idle, memory, Torn
<1>3. CASE SaveBlockchain
  <2>1. chainFile' \in FileType /\ autoSaved' \in BOOLEAN /\ clean' \in BOOLEAN
    BY <1>3, FileTypes DEF SaveBlockchain, FilesInv, TypeOK, FileType, Idle
  <2>2. TypeOK'
    BY <1>3, <2>1 DEF SaveBlockchain, FilesInv, TypeOK, FileType, memory
  <2>3. \/ chainFile' = Json(lastSaved) /\ autoSaved' = FALSE /\ clean' = Idle
        \/ chainFile' \in {Torn, chainFile} /\ UNCHANGED <<autoSaved, clean>>
    BY <1>3 DEF SaveBlockchain
  <2>4. /\ phase = "exit" /\ phase' = "saved" /\ lastSaved' = lastSaved /\ pc' = pc
        /\ Blocks' = Blocks
    BY <1>3 DEF SaveBlockchain, memory
  <2>5. ~clean
    BY <2>4 DEF FilesInv
  <2>6. clean' => Idle'
    <3>1. CASE clean' = Idle
      <4>1. Idle' = Idle
        BY <2>4 DEF Idle
      <4> QED BY <4>1, <3>1
    <3> QED BY <3>1, <2>3, <2>5
  <2>7. clean' => chainFile' = Json(lastSaved)'
    BY <2>3, <2>4, <2>5 DEF Json
  <2>8. ~(~AtWork)'
    BY <2>4 DEF AtWork
  <2>9. (chainFile.blocks = IF chainFile.format = "json" THEN lastSaved ELSE <<>>)'
    BY <2>3, <2>4 DEF Json, Torn, FilesInv
  <2>10. (autoSaved => chainFile.format # "json")'
    <3>1. CASE autoSaved' = FALSE
      BY <3>1
    <3>2. CASE chainFile' \in {Torn, chainFile} /\ autoSaved' = autoSaved
      <4>1. autoSaved => chainFile.format # "json"
        BY DEF FilesInv
      <4>2. Torn.format # "json"
        BY DEF Torn
      <4> QED BY <3>2, <4>1, <4>2
    <3> QED BY <2>3, <3>1, <3>2
  <2> QED BY <2>2, <2>4, <2>6, <2>7, <2>8, <2>9, <2>10 DEF FilesInv
<1> QED BY <1>1, <1>2, <1>3

LEMMA StepFiles == FilesInv /\ [Next]_vars => FilesInv'
<1> SUFFICES ASSUME FilesInv, [Next]_vars PROVE FilesInv'
  OBVIOUS
<1>1. CASE SaveWallet
  <2>1. /\ walletFile' \in [state : {"none", "torn", "whole"}, key : Nat]
        /\ typeID' \in Nat
    BY <1>1 DEF SaveWallet, FilesInv, TypeOK, FirstTypeID
  <2>2. TypeOK'
    BY <1>1, <2>1 DEF SaveWallet, FilesInv, TypeOK, history
  <2> QED BY <1>1, <2>2 DEF SaveWallet, FilesInv, AtWork, Idle, history
<1>2. CASE UNCHANGED vars
  BY <1>2 DEF FilesInv, TypeOK, AtWork, Idle, vars, memory, history
<1> QED BY <1>1, <1>2, StartFiles, LoadFiles, HandlerFiles, ExitFiles, EndFiles DEF Next
-----------------------------------------------------------------------------
LEMMA BlockTypes ==
  ASSUME NEW chain \in Seq(Block)
  PROVE  /\ DOMAIN chain = 1..Len(chain) /\ Len(chain) \in Nat
         /\ \A i \in DOMAIN chain : /\ chain[i] \in Block
                                   /\ chain[i].session \in Nat /\ chain[i].key \in Nat
<1>1. DOMAIN chain = 1..Len(chain) /\ Len(chain) \in Nat
  BY LenProperties
<1>2. \A i \in DOMAIN chain : chain[i] \in Block
  BY <1>1, ElementOfSeq
<1>3. \A b \in Block : b.session \in Nat /\ b.key \in Nat
  BY DEF Block
<1> QED BY <1>1, <1>2, <1>3

LEMMA InitSessions == Init => SessionsInv
  BY NoBlocks DEF Init, SessionsInv, CutOffLost

LEMMA StartSessions == FilesInv /\ SessionsInv /\ (LoadWallet \/ NewWallet) => SessionsInv'
<1> SUFFICES ASSUME FilesInv, SessionsInv, LoadWallet \/ NewWallet PROVE SessionsInv'
  OBVIOUS
<1>1. /\ phase = "down" /\ session' = session + 1 /\ stdin' \in {stdin, "none", "open"}
      /\ cutOff' = cutOff /\ lastSaved' = lastSaved /\ Blocks' = Blocks
  BY DEF LoadWallet, NewWallet, Start, history
<1>2. session \in Nat /\ cutOff \in SUBSET Nat
  BY DEF FilesInv, TypeOK
<1>3. session' \notin cutOff
  BY <1>1, <1>2 DEF SessionsInv
<1>4. Blocks = <<>> /\ DOMAIN Blocks = {}
  BY <1>1, NoBlocks DEF FilesInv, AtWork
<1>5. \A i \in DOMAIN lastSaved : lastSaved[i].session \in Nat
  BY BlockTypes DEF FilesInv, TypeOK
<1>7. ~(stdin' = "ended")
  BY <1>1 DEF SessionsInv
<1> QED BY <1>1, <1>2, <1>3, <1>4, <1>5, <1>7 DEF SessionsInv, CutOffLost

LEMMA LoadSessions == FilesInv /\ SessionsInv /\ loadOrCreateBlockchain => SessionsInv'
<1> SUFFICES ASSUME FilesInv, SessionsInv, loadOrCreateBlockchain PROVE SessionsInv'
  OBVIOUS
<1>1. /\ phase = "load" /\ phase' = "ready"
      /\ UNCHANGED <<session, stdin, pc, lastSaved, cutOff>>
      /\ \/ chainFile.format = "json" /\ Blocks' = chainFile.blocks
         \/ Blocks' = <<GenesisBlock>>
  BY DEF loadOrCreateBlockchain, LoadBlockchain, NewBlockchain, history
<1>2. session \notin cutOff /\ session \in Nat
  BY <1>1 DEF SessionsInv, FilesInv, TypeOK
<1>3. CASE Blocks' = lastSaved
  BY <1>1, <1>2, <1>3 DEF SessionsInv, CutOffLost
<1>4. CASE Blocks' = <<GenesisBlock>>
  <2>1. \A i \in DOMAIN Blocks' : Blocks'[i].session = session
    BY <1>2, <1>4, Genesis
  <2> QED BY <1>1, <1>2, <2>1 DEF SessionsInv, CutOffLost
<1> QED BY <1>1, <1>3, <1>4 DEF FilesInv

LEMMA HandlerSessions ==
  ASSUME FilesInv, SessionsInv, NEW r \in Req, Handler(r)
  PROVE  SessionsInv'
<1>1. phase' = phase /\ UNCHANGED <<session, stdin, lastSaved, cutOff>>
  BY DEF Handler, handleMine, AddBlock, SaveOpen, SaveEncode, history
<1>2. session \notin cutOff
  BY DEF Handler, handleMine, AddBlock, SaveOpen, SaveEncode, SessionsInv, FilesInv,
         Serving, Idle, AtWork
<1>3. session \in Nat
  BY DEF FilesInv, TypeOK
<1>4. CASE AddBlock(r)
  <2>1. \A i \in DOMAIN Blocks' : Blocks'[i].session = session \/ (i \in DOMAIN Blocks /\ Blocks'[i] = Blocks[i])
    <3>1. Blocks \in Seq(Block) /\ TypeOK
      BY DEF FilesInv, TypeOK
    <3>2. /\ Blocks' \in Seq(Block)
          /\ \A i \in 1..Len(Blocks') :
               \/ i \in 1..Len(Blocks) /\ Blocks'[i] = Blocks[i]
               \/ \E l \in BOOLEAN : Blocks'[i] = NewBlock(l) /\ (l \/ session \in raced)
      BY <1>4, <3>1, Added
    <3>3. DOMAIN Blocks = 1..Len(Blocks) /\ DOMAIN Blocks' = 1..Len(Blocks')
      BY <3>1, <3>2, BlockTypes
    <3>4. \A l \in BOOLEAN : NewBlock(l).session = session
      BY DEF NewBlock
    <3> QED BY <3>2, <3>3, <3>4
  <2> QED BY <1>1, <1>2, <1>3, <2>1 DEF SessionsInv, CutOffLost
<1>5. CASE handleMine(r) \/ SaveOpen(r) \/ SaveEncode(r)
  <2>1. Blocks' = Blocks
    BY <1>5 DEF handleMine, SaveOpen, SaveEncode
  <2> QED BY <1>1, <1>2, <2>1 DEF SessionsInv, CutOffLost
<1> QED BY <1>4, <1>5 DEF Handler

LEMMA ExitSessions ==
  FilesInv /\ SessionsInv /\ (EndOfInput \/ Exit \/ SaveBlockchain) => SessionsInv'
<1> SUFFICES ASSUME FilesInv, SessionsInv, EndOfInput \/ Exit \/ SaveBlockchain
             PROVE SessionsInv'
  OBVIOUS
<1>0. session \in Nat /\ cutOff \in SUBSET Nat
  BY DEF FilesInv, TypeOK
<1>1. CASE EndOfInput
  <2>1. /\ phase = "ready" /\ phase' = phase /\ Idle /\ pc' = pc /\ stdin' = "ended"
        /\ cutOff' = cutOff \cup {session} /\ UNCHANGED <<session, Blocks, lastSaved>>
    BY <1>1 DEF EndOfInput
  <2>2. \A i \in DOMAIN lastSaved : lastSaved[i].session # session
    <3>1. \A i \in DOMAIN lastSaved : lastSaved[i].session \in Nat
      BY BlockTypes DEF FilesInv, TypeOK
    <3> QED BY <1>0, <2>1, <3>1 DEF SessionsInv
  <2>3. CutOffLost(lastSaved)'
    BY <2>1, <2>2 DEF SessionsInv, CutOffLost
  <2> QED BY <1>0, <2>1, <2>3 DEF SessionsInv, Idle
<1>2. CASE Exit
  <2>1. /\ phase = "ready" /\ phase' \in {"exit", "saved"} /\ stdin # "ended"
        /\ lastSaved' \in {Blocks, lastSaved}
        /\ UNCHANGED <<session, stdin, Blocks, cutOff>>
    BY <1>2 DEF Exit, memory
  <2>2. session \notin cutOff
    BY <2>1 DEF SessionsInv
  <2> QED BY <2>1, <2>2 DEF SessionsInv, CutOffLost
<1>3. CASE SaveBlockchain
  <2>1. /\ phase = "exit" /\ phase' = "saved"
        /\ UNCHANGED <<session, stdin, Blocks, cutOff, lastSaved>>
    BY <1>3 DEF SaveBlockchain, memory
  <2> QED BY <2>1 DEF SessionsInv, CutOffLost
<1> QED BY <1>1, <1>2, <1>3

LEMMA StepSessions == FilesInv /\ SessionsInv /\ [Next]_vars => SessionsInv'
<1> SUFFICES ASSUME FilesInv, SessionsInv, [Next]_vars PROVE SessionsInv'
  OBVIOUS
<1>1. CASE SaveWallet
  <2>1. /\ phase = "wallet" /\ phase' = "load"
        /\ UNCHANGED <<session, stdin, Blocks, cutOff, lastSaved>>
    BY <1>1 DEF SaveWallet, history
  <2> QED BY <2>1 DEF SessionsInv, CutOffLost
<1>2. CASE Quit \/ Crash
  <2>1. /\ phase' = "down" /\ Blocks' = <<>> /\ stdin' = "none"
        /\ UNCHANGED <<session, cutOff, lastSaved>>
    BY <1>2 DEF Quit, Crash, End, history
  <2> QED BY <2>1, NoBlocks DEF SessionsInv, CutOffLost
<1>3. CASE UNCHANGED vars
  BY <1>3 DEF SessionsInv, CutOffLost, Idle, vars, memory, history
<1> QED BY <1>1, <1>2, <1>3, StartSessions, LoadSessions, HandlerSessions, ExitSessions DEF Next
-----------------------------------------------------------------------------
LEMMA InitWallets == Init => WalletsInv
<1> SUFFICES ASSUME Init PROVE WalletsInv
  OBVIOUS
<1>1. \A i \in 2..Len(<<>>) : FALSE
  BY NoBlocks
<1> QED BY <1>1 DEF Init, WalletsInv, AtWork

(* A step that leaves the chains as they are. *)
LEMMA ChainsStay ==
  ASSUME FilesInv, WalletsInv, session' \in Nat, session <= session', raced \subseteq raced',
         walletFile' = walletFile \/ walletFile'.state # "whole",
         Blocks' = Blocks, lastSaved' = lastSaved
  PROVE  /\ (\A i \in 2..Len(Blocks) : Mined(Blocks[i]))'
         /\ (\A i \in 2..Len(lastSaved) : Mined(lastSaved[i]))'
<1>1. session \in Nat /\ Blocks \in Seq(Block) /\ lastSaved \in Seq(Block)
  BY DEF FilesInv, TypeOK
<1>2. ASSUME NEW i \in 2..Len(Blocks) PROVE Mined(Blocks[i])'
  <2>1. Blocks[i] \in Block
    <3>1. i \in DOMAIN Blocks
      BY <1>1, BlockTypes
    <3> QED BY <1>1, <3>1, BlockTypes
  <2> DEFINE b == Blocks[i]
  <2>2. b \in Block /\ Mined(b)
    BY <2>1 DEF WalletsInv
  <2>3. b' = b
    OBVIOUS
  <2> HIDE DEF b
  <2>4. b.session \in Nat
    BY <2>2 DEF Block
  <2>5. Mined(b)'
    BY <1>1, <2>2, <2>3, <2>4 DEF Mined
  <2> QED BY <2>5 DEF b
<1>3. ASSUME NEW i \in 2..Len(lastSaved) PROVE Mined(lastSaved[i])'
  <2>1. lastSaved[i] \in Block
    <3>1. i \in DOMAIN lastSaved
      BY <1>1, BlockTypes
    <3> QED BY <1>1, <3>1, BlockTypes
  <2> DEFINE b == lastSaved[i]
  <2>2. b \in Block /\ Mined(b)
    BY <2>1 DEF WalletsInv
  <2>3. b' = b
    OBVIOUS
  <2> HIDE DEF b
  <2>4. b.session \in Nat
    BY <2>2 DEF Block
  <2>5. Mined(b)'
    BY <1>1, <2>2, <2>3, <2>4 DEF Mined
  <2> QED BY <2>5 DEF b
<1> QED BY <1>2, <1>3

LEMMA StartWallets ==
  FilesInv /\ SessionsInv /\ WalletsInv /\ (LoadWallet \/ NewWallet) => WalletsInv'
<1> SUFFICES ASSUME FilesInv, SessionsInv, WalletsInv, LoadWallet \/ NewWallet
             PROVE WalletsInv'
  OBVIOUS
<1>1. /\ phase = "down" /\ session' = session + 1 /\ session \in Nat
      /\ UNCHANGED <<typeID, Blocks, lastSaved, raced>>
      /\ walletFile \in [state : {"none", "torn", "whole"}, key : Nat]
      /\ walletFile.key <= session /\ typeID = FirstTypeID
  BY DEF LoadWallet, NewWallet, Start, history, FilesInv, TypeOK, WalletsInv
<1>2. walletFile' = walletFile \/ walletFile' = [state |-> "torn", key |-> 0]
  BY DEF LoadWallet, NewWallet
<1>3. /\ (\A i \in 2..Len(Blocks) : Mined(Blocks[i]))'
      /\ (\A i \in 2..Len(lastSaved) : Mined(lastSaved[i]))'
  <2>1. session' \in Nat /\ session <= session' /\ raced \subseteq raced'
    BY <1>1
  <2>2. walletFile' = walletFile \/ walletFile'.state # "whole"
    BY <1>2
  <2> QED BY <1>1, <2>1, <2>2, ChainsStay
<1>4. CASE LoadWallet
  <2>1. /\ walletFile.state = "whole" /\ walletFile' = walletFile
        /\ phase' = "load" /\ key' = walletFile.key
    BY <1>4 DEF LoadWallet
  <2>2. key' # session'
    BY <1>1, <2>1
  <2>3. walletFile' = [state |-> "whole", key |-> key']
    BY <1>1, <2>1
  <2> QED BY <1>1, <1>3, <2>1, <2>2, <2>3 DEF WalletsInv, AtWork
<1>5. CASE NewWallet
  <2>1. \/ /\ phase' = "wallet" /\ key' = session' /\ walletFile' = [state |-> "torn", key |-> 0]
        \/ phase' = "down" /\ walletFile' = walletFile
    BY <1>1, <1>5 DEF NewWallet
  <2>2. walletFile'.key <= session'
    BY <1>1, <2>1
  <2> QED BY <1>1, <1>3, <2>1, <2>2 DEF WalletsInv, AtWork
<1> QED BY <1>4, <1>5

LEMMA SaveWallets ==
  FilesInv /\ SessionsInv /\ WalletsInv /\ SaveWallet => WalletsInv'
<1> SUFFICES ASSUME FilesInv, SessionsInv, WalletsInv, SaveWallet PROVE WalletsInv'
  OBVIOUS
<1>1. /\ phase = "wallet" /\ phase' = "load" /\ key = session /\ session \in Nat
      /\ walletFile' = [state |-> "whole", key |-> key]
      /\ typeID' = FirstTypeID + 1
      /\ UNCHANGED <<session, key, Blocks, lastSaved, raced>>
      /\ Blocks = <<>> /\ lastSaved \in Seq(Block)
  BY DEF SaveWallet, history, FilesInv, TypeOK, WalletsInv, AtWork
<1>2. ASSUME NEW i \in 2..Len(lastSaved) PROVE Mined(lastSaved[i])'
  <2>1. i \in DOMAIN lastSaved
    BY <1>1, BlockTypes
  <2> DEFINE b == lastSaved[i]
  <2>2. b \in Block /\ Mined(b) /\ b.session < session
    BY <1>1, <2>1, BlockTypes DEF WalletsInv, SessionsInv
  <2>3. b' = b
    BY <1>1
  <2> HIDE DEF b
  <2>4. b.session \in Nat /\ b.key \in Nat
    BY <2>2 DEF Block
  <2>5. Mined(b)'
    BY <1>1, <2>2, <2>3, <2>4 DEF Mined
  <2> QED BY <2>5 DEF b
<1>3. \A i \in 2..Len(Blocks') : FALSE
  BY <1>1, NoBlocks
<1> QED BY <1>1, <1>2, <1>3 DEF WalletsInv, AtWork

LEMMA LoadWallets ==
  FilesInv /\ SessionsInv /\ WalletsInv /\ loadOrCreateBlockchain => WalletsInv'
<1> SUFFICES ASSUME FilesInv, WalletsInv, loadOrCreateBlockchain PROVE WalletsInv'
  OBVIOUS
<1>1. /\ phase = "load" /\ phase' = "ready" /\ session \in Nat
      /\ UNCHANGED <<session, walletFile, key, typeID, lastSaved, raced>>
      /\ \/ chainFile.format = "json" /\ Blocks' = chainFile.blocks
         \/ Blocks' = <<GenesisBlock>>
  BY DEF loadOrCreateBlockchain, LoadBlockchain, NewBlockchain, history, FilesInv, TypeOK
<1>2. CASE Blocks' = lastSaved
  BY <1>1, <1>2 DEF WalletsInv, AtWork, Mined
<1>3. CASE Blocks' = <<GenesisBlock>>
  <2>1. \A i \in 2..Len(Blocks') : FALSE
    BY <1>1, <1>3, Genesis
  <2> QED BY <1>1, <2>1 DEF WalletsInv, AtWork, Mined
<1> QED BY <1>1, <1>2, <1>3 DEF FilesInv

LEMMA HandlerWallets ==
  ASSUME FilesInv, SessionsInv, WalletsInv, NEW r \in Req, Handler(r)
  PROVE  WalletsInv'
<1>1. /\ AtWork /\ phase' = phase /\ session \in Nat
      /\ UNCHANGED <<session, walletFile, key, typeID, lastSaved>>
  BY DEF FilesInv, TypeOK, Idle, Handler, handleMine, AddBlock, SaveOpen, SaveEncode,
         Serving, AtWork, history
<1>2. AtWork'
  BY <1>1 DEF AtWork
<1>3. CASE AddBlock(r)
  <2>1. raced' = raced /\ TypeOK
    BY <1>3 DEF AddBlock, history, FilesInv
  <2>2. /\ Blocks' \in Seq(Block) /\ Blocks \in Seq(Block)
        /\ \A i \in 1..Len(Blocks') :
             \/ i \in 1..Len(Blocks) /\ Blocks'[i] = Blocks[i]
             \/ \E l \in BOOLEAN : Blocks'[i] = NewBlock(l) /\ (l \/ session \in raced)
    BY <1>3, <2>1, Added DEF TypeOK
  <2>3. ASSUME NEW l \in BOOLEAN, l \/ session \in raced PROVE Mined(NewBlock(l))
    <3>1. /\ walletFile = [state |-> "whole", key |-> key] /\ walletFile.key <= session
          /\ typeID = IF key = session THEN FirstTypeID + 1 ELSE FirstTypeID
      BY <1>1 DEF WalletsInv
    <3> DEFINE b == NewBlock(l)
    <3>2. b.session = session /\ b.key = key /\ b.typeID = typeID /\ (b.linked <=> l)
      BY DEF NewBlock
    <3>3. walletFile.key = key /\ key <= session
      BY <3>1
    <3> HIDE DEF b
    <3>4. Mined(b)
      BY <3>1, <3>2, <3>3, <2>3, <1>1 DEF Mined
    <3> QED BY <3>4 DEF b
  <2>4. ASSUME NEW i \in 2..Len(Blocks') PROVE Mined(Blocks'[i])
    <3>1. i \in 1..Len(Blocks') /\ i # 1 /\ Len(Blocks) \in Nat
      BY <2>2, BlockTypes
    <3>2. CASE i \in 1..Len(Blocks) /\ Blocks'[i] = Blocks[i]
      <4>1. i \in 2..Len(Blocks)
        BY <3>1, <3>2
      <4> QED BY <3>2, <4>1 DEF WalletsInv
    <3>3. CASE \E l \in BOOLEAN : Blocks'[i] = NewBlock(l) /\ (l \/ session \in raced)
      BY <3>3, <2>3
    <3> QED BY <2>2, <3>1, <3>2, <3>3
  <2>5. (\A i \in 2..Len(Blocks) : Mined(Blocks[i]))'
    BY <1>1, <2>1, <2>4 DEF Mined
  <2>6. (\A i \in 2..Len(lastSaved) : Mined(lastSaved[i]))'
    BY <1>1, <2>1 DEF Mined, WalletsInv
  <2> QED BY <1>1, <1>2, <2>5, <2>6 DEF WalletsInv, AtWork
<1>4. CASE handleMine(r) \/ SaveOpen(r) \/ SaveEncode(r)
  <2>1. raced \subseteq raced' /\ Blocks' = Blocks
    BY <1>4 DEF handleMine, SaveOpen, SaveEncode, history
  <2>2. session' \in Nat /\ session <= session' /\ walletFile' = walletFile
    BY <1>1
  <2>3. /\ (\A i \in 2..Len(Blocks) : Mined(Blocks[i]))'
        /\ (\A i \in 2..Len(lastSaved) : Mined(lastSaved[i]))'
    BY <1>1, <2>1, <2>2, ChainsStay
  <2> QED BY <1>1, <1>2, <2>3 DEF WalletsInv, AtWork
<1> QED BY <1>3, <1>4 DEF Handler

LEMMA ExitWallets ==
  FilesInv /\ WalletsInv /\ (EndOfInput \/ Exit \/ SaveBlockchain) => WalletsInv'
<1> SUFFICES ASSUME FilesInv, WalletsInv, EndOfInput \/ Exit \/ SaveBlockchain
             PROVE WalletsInv'
  OBVIOUS
<1>1. /\ AtWork /\ AtWork' /\ phase' \in {"ready", "exit", "saved"}
      /\ UNCHANGED <<session, walletFile, key, typeID, raced, Blocks>>
      /\ lastSaved' = lastSaved \/ lastSaved' = Blocks
  BY DEF EndOfInput, Exit, SaveBlockchain, AtWork, memory
<1>2. (\A i \in 2..Len(Blocks) : Mined(Blocks[i]))'
  BY <1>1 DEF WalletsInv, Mined
<1>3. (\A i \in 2..Len(lastSaved) : Mined(lastSaved[i]))'
  BY <1>1 DEF WalletsInv, Mined
<1> QED BY <1>1, <1>2, <1>3 DEF WalletsInv, AtWork

LEMMA StepWallets == FilesInv /\ SessionsInv /\ WalletsInv /\ [Next]_vars => WalletsInv'
<1> SUFFICES ASSUME FilesInv, SessionsInv, WalletsInv, [Next]_vars PROVE WalletsInv'
  OBVIOUS
<1>1. CASE Quit \/ Crash
  <2>1. /\ phase' = "down" /\ Blocks' = <<>> /\ typeID' = FirstTypeID
        /\ UNCHANGED <<session, walletFile, lastSaved, raced>>
    BY <1>1 DEF Quit, Crash, End, history
  <2>2. \A i \in 2..Len(Blocks') : FALSE
    BY <2>1, NoBlocks
  <2> QED BY <2>1, <2>2 DEF WalletsInv, AtWork, Mined
<1>2. CASE UNCHANGED vars
  BY <1>2 DEF WalletsInv, Mined, AtWork, vars, memory, history
<1> QED BY <1>1, <1>2, StartWallets, SaveWallets, LoadWallets, HandlerWallets, ExitWallets
        DEF Next
-----------------------------------------------------------------------------
(* What is in the files and in memory, of any number of sessions, requests *)
(* at a time, failed loads and saves and crashes.                          *)
THEOREM InvCorrect == Spec => []Inv
<1>1. Init => Inv
  BY InitFiles, InitSessions, InitWallets DEF Inv
<1>2. Inv /\ [Next]_vars => Inv'
  BY StepFiles, StepSessions, StepWallets DEF Inv
<1> QED BY <1>1, <1>2, PTL DEF Spec

(* Type correctness.                                                       *)
THEOREM TypeCorrect == Spec => []TypeOK
<1>1. Inv => TypeOK
  BY DEF Inv, FilesInv
<1> QED BY <1>1, InvCorrect, PTL

(* A start has the last saved chain or a new one, and after a clean exit a *)
(* new one only when the load of the whole file fails.                     *)
THEOREM RestartFindsCorrect == Spec => RestartFinds
<1>1. Inv /\ [Next]_vars =>
        [loadOrCreateBlockchain =>
           \/ Blocks' = lastSaved /\ chainFile = Json(lastSaved)
           \/ Blocks' = <<GenesisBlock>> /\ (clean => chainFile = Json(lastSaved))]_vars
  <2> SUFFICES ASSUME Inv, loadOrCreateBlockchain
               PROVE  \/ Blocks' = lastSaved /\ chainFile = Json(lastSaved)
                      \/ Blocks' = <<GenesisBlock>> /\ (clean => chainFile = Json(lastSaved))
    OBVIOUS
  <2>1. CASE LoadBlockchain
    <3>1. chainFile.format = "json" /\ Blocks' = chainFile.blocks /\ chainFile \in FileType
      BY <2>1 DEF LoadBlockchain, Inv, FilesInv, TypeOK, FileType
    <3>2. Blocks' = lastSaved /\ chainFile = Json(lastSaved)
      BY <3>1 DEF Inv, FilesInv, FileType, Json
    <3> QED BY <3>2
  <2>2. CASE NewBlockchain
    BY <2>2 DEF NewBlockchain, Inv, FilesInv
  <2> QED BY <2>1, <2>2 DEF loadOrCreateBlockchain
<1> QED BY <1>1, InvCorrect, PTL DEF Spec, RestartFinds

(* A node at work can spend, after any restart, just what it mined since   *)
(* its wallet was made.                                                    *)
THEOREM WalletOwnsItsBlocksCorrect == Spec => []WalletOwnsItsBlocks
<1>1. Inv => WalletOwnsItsBlocks
  <2> SUFFICES ASSUME Inv, AtWork
               PROVE  /\ walletFile = [state |-> "whole", key |-> key]
                      /\ \A i \in 2..Len(Blocks) : Blocks[i].key = key <=> Blocks[i].session >= key
    BY DEF WalletOwnsItsBlocks
  <2>1. walletFile = [state |-> "whole", key |-> key]
    BY DEF Inv, WalletsInv
  <2>2. walletFile.state = "whole" /\ walletFile.key = key
    BY <2>1
  <2> QED BY <2>1, <2>2 DEF Inv, WalletsInv, Mined
<1> QED BY <1>1, InvCorrect, PTL

(* Sessions that loaded their wallet accept each other's chains, and so do *)
(* sessions that made it, unless requests have mined at once.              *)
THEOREM LoadedSessionsAgreeCorrect == Spec => LoadedSessionsAgree
<1>1. Inv /\ Inv' /\ [Next]_vars =>
        [loadOrCreateBlockchain /\ ~Validate(Blocks') =>
           \E i \in 2..Len(Blocks') :
             LET b == Blocks'[i]
             IN  b.session \in raced \/ (b.key = b.session) # (key = session)]_vars
  <2> SUFFICES ASSUME Inv, Inv', loadOrCreateBlockchain, ~Validate(Blocks')
               PROVE  \E i \in 2..Len(Blocks') :
                        Blocks'[i].session \in raced \/
                        (Blocks'[i].key = Blocks'[i].session) # (key = session)
    OBVIOUS
  <2>1. /\ typeID = IF key = session THEN FirstTypeID + 1 ELSE FirstTypeID
        /\ raced' = raced
    BY DEF Inv, WalletsInv, loadOrCreateBlockchain, LoadBlockchain, NewBlockchain, history
  <2>2. PICK i \in 2..Len(Blocks') : ~(Blocks'[i].linked /\ Recomputes(Blocks'[i]))
    BY DEF Validate
  <2>3. Mined(Blocks[i])'
    BY DEF Inv, WalletsInv
  <2> DEFINE b == Blocks'[i]
  <2>4. /\ b.typeID = (IF b.key = b.session THEN FirstTypeID + 1 ELSE FirstTypeID)
        /\ b.linked \/ b.session \in raced
    BY <2>1, <2>3 DEF Mined
  <2>5. ~b.linked \/ b.typeID # typeID
    BY <2>2 DEF Recomputes
  <2> HIDE DEF b
  <2>6. FirstTypeID + 1 # FirstTypeID
    BY DEF FirstTypeID
  <2>7. b.session \in raced \/ (b.key = b.session) # (key = session)
    BY <2>1, <2>4, <2>5, <2>6
  <2> QED BY <2>7 DEF b
<1> QED BY <1>1, InvCorrect, PTL DEF Spec, LoadedSessionsAgree

(* What automatic saves wrote is never there at a start.                   *)
THEOREM AutoSaveNotReadCorrect == Spec => AutoSaveNotRead
<1>1. Inv /\ [Next]_vars =>
        [loadOrCreateBlockchain /\ autoSaved => Blocks' = <<GenesisBlock>>]_vars
  BY DEF Inv, FilesInv, loadOrCreateBlockchain, LoadBlockchain, NewBlockchain
<1> QED BY <1>1, InvCorrect, PTL DEF Spec, AutoSaveNotRead

(* A session cut off at the end of its input leaves nothing behind.        *)
THEOREM EndOfInputLosesCorrect == Spec => []EndOfInputLoses
<1>1. Inv => EndOfInputLoses
  <2> SUFFICES ASSUME Inv PROVE CutOffLost(chainFile.blocks)
    BY DEF Inv, SessionsInv, EndOfInputLoses
  <2>1. CASE chainFile.format = "json"
    BY <2>1 DEF Inv, FilesInv, SessionsInv
  <2>2. CASE chainFile.format # "json"
    <3>1. chainFile.blocks = <<>>
      BY <2>2 DEF Inv, FilesInv
    <3> QED BY <3>1, NoBlocks DEF CutOffLost
  <2> QED BY <2>1, <2>2
<1> QED BY <1>1, InvCorrect, PTL
=============================================================================
