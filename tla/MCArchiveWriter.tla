-------------------------- MODULE MCArchiveWriter --------------------------
(* Instances of ArchiveWriter for TLC. *)
EXTENDS ArchiveWriter

Layers(encryptions, compressions, faults) ==
  [encryption : encryptions, compression : compressions, faults : {faults}]

\* Writes fail below gzip, which remembers it, and everything is closed twice above nothing.
GzipOrNoFault ==
  Layers({"none", "block", "sealed"}, {"gzip"}, 2)
    \cup Layers({"none", "block", "sealed"}, {"none"}, 0)

\* Nothing is between the encryptor and the disk, or the encryptor is that of age.
SealedToDiskOrAge == Layers({"sealed"}, {"none"}, 1) \cup Layers({"age"}, {"gzip"}, 0)
============================================================================
