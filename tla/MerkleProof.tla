----------------------------- MODULE MerkleProof -----------------------------
(***************************************************************************)
(* Proofs of inclusion (packages/proof/src, packages/node/src/routes/      *)
(* proofs.ts): a Merkle tree over the hashes of the attestations, the      *)
(* packages that carry an attestation with its path to the root, and their *)
(* verification.  A digest is the tagged value it was computed from, so    *)
(* the leaf and node tags of the code are the tags "leaf" and "node"; a    *)
(* Malformed digest is one that is not 64 hexadecimal digits, and Null is  *)
(* the root of an empty tree.  Positions count from 1.                     *)
(***************************************************************************)
EXTENDS Integers, Sequences, FiniteSetsExt

Malformed == <<"malformed">>
Null == <<"null">>
assertValidSha256Hex(h) == h \notin {Malformed, Null}

hashLeaf(leaf) == <<"leaf", leaf>>
hashPair(left, right) == <<"node", left, right>>

(* A lone last node is paired with itself.                                 *)
ParentLevel_Duplicates(level) ==
    [k \in 1..((Len(level) + 1) \div 2) |->
        IF 2 * k > Len(level) THEN hashPair(level[2 * k - 1], level[2 * k - 1])
        ELSE hashPair(level[2 * k - 1], level[2 * k])]

(* A lone last node moves up unchanged.                                    *)
ParentLevel(level) ==
    [k \in 1..((Len(level) + 1) \div 2) |->
        IF 2 * k > Len(level) THEN level[2 * k - 1]
        ELSE hashPair(level[2 * k - 1], level[2 * k])]

(* The levels of the tree, the hashed leaves first, and more of them than  *)
(* buildTree needs: it stops at the first level of one node.               *)
Levels(leaves) ==
    LET level[n \in 0..Len(leaves)] ==
            IF n = 0 THEN [k \in DOMAIN leaves |-> hashLeaf(leaves[k])]
            ELSE ParentLevel(level[n - 1])
    IN  level

Height(leaves) == Min({n \in 0..Len(leaves) : Len(Levels(leaves)[n]) = 1})

getRoot(leaves) ==
    IF leaves = <<>> THEN Null ELSE Levels(leaves)[Height(leaves)][1]

(* One level up in the loop of getProof: a node with a sibling adds a step *)
(* to the path.                                                            *)
Climb(level, path) ==
    LET isLeft == path.at % 2 = 1
        sibling == IF isLeft THEN path.at + 1 ELSE path.at - 1
        step == [hash |-> level[sibling], direction |-> IF isLeft THEN "right" ELSE "left"]
    IN  [at |-> (path.at + 1) \div 2,
         siblings |-> IF sibling > Len(level) THEN path.siblings ELSE Append(path.siblings, step)]

PathUp(leaves, index) ==
    LET path[n \in 0..Len(leaves)] ==
            IF n = 0 THEN [at |-> index, siblings |-> <<>>]
            ELSE Climb(Levels(leaves)[n - 1], path[n - 1])
    IN  path

getProof(leaves, index) ==
    [leafHash |-> leaves[index], leafIndex |-> index, root |-> getRoot(leaves),
     siblings |-> PathUp(leaves, index)[Height(leaves)].siblings]

Fold(step, hash) ==
    IF step.direction = "left" THEN hashPair(step.hash, hash) ELSE hashPair(hash, step.hash)

(* The loop of verifyProof.                                                *)
FoldUp(leafHash, siblings) ==
    LET hash[k \in 0..Len(siblings)] ==
            IF k = 0 THEN hashLeaf(leafHash) ELSE Fold(siblings[k], hash[k - 1])
    IN  hash[Len(siblings)]

(* verifyProof throws on a malformed digest; its caller takes that as FALSE. *)
verifyProof(proof) ==
    /\ assertValidSha256Hex(proof.leafHash) /\ assertValidSha256Hex(proof.root)
    /\ \A k \in DOMAIN proof.siblings : assertValidSha256Hex(proof.siblings[k].hash)
    /\ proof.root = FoldUp(proof.leafHash, proof.siblings)

-----------------------------------------------------------------------------
(* Packages                                                                *)

hashAttestation(attestation) == <<"attestation", attestation>>

computePackageHash(attestation, attestationHash, merkleRoot, inclusionProof) ==
    <<"package", attestation, attestationHash, merkleRoot, inclusionProof>>

Package(attestation, merkleRoot, inclusionProof) ==
    LET hash == hashAttestation(attestation)
    IN  [attestation |-> attestation, attestationHash |-> hash, merkleRoot |-> merkleRoot,
         inclusionProof |-> inclusionProof,
         packageHash |-> computePackageHash(attestation, hash, merkleRoot, inclusionProof)]

(* tree is the leaves the tree was built from; eventHashes is what the     *)
(* caller passes beside it.  The last outcome is an Error.                 *)
packageAttestationProofResult(attestation, eventHashes, tree, index) ==
    CASE tree = <<>> -> [ok |-> FALSE, reason |-> "empty-tree"]
      [] tree # <<>> /\ index \notin DOMAIN tree -> [ok |-> FALSE, reason |-> "index-out-of-range"]
      [] index \in DOMAIN tree /\ index \notin DOMAIN eventHashes ->
           [ok |-> FALSE, reason |-> "index-not-in-event-hashes"]
      [] index \in DOMAIN tree \cap DOMAIN eventHashes ->
           IF eventHashes[index] = hashAttestation(attestation) /\ tree[index] = eventHashes[index]
           THEN [ok |-> TRUE, package |-> Package(attestation, getRoot(tree), getProof(tree, index))]
           ELSE [ok |-> FALSE, reason |-> "throws"]

verifyAttestationProof(pkg) ==
    /\ hashAttestation(pkg.attestation) = pkg.attestationHash
    /\ pkg.attestationHash = pkg.inclusionProof.leafHash
    /\ verifyProof(pkg.inclusionProof)
    /\ pkg.merkleRoot = pkg.inclusionProof.root
    /\ pkg.packageHash = computePackageHash(pkg.attestation, pkg.attestationHash,
                                            pkg.merkleRoot, pkg.inclusionProof)

(* buildAttestationTree and GET /attestation/:id: the package of the first *)
(* attestation with that id, or None.                                      *)
attestationHashes(attestations) == [k \in DOMAIN attestations |-> hashAttestation(attestations[k])]

proofOfAttestation(attestations, id) ==
    LET found == {k \in DOMAIN attestations : attestations[k].id = id}
        hashes == attestationHashes(attestations)
    IN  IF found = {} THEN [ok |-> FALSE, reason |-> "not-found"]
        ELSE packageAttestationProofResult(attestations[Min(found)], hashes, hashes, Min(found))
==============================================================================
