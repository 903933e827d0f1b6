---- MODULE MCFileSystem ----
EXTENDS FileSystem

\* the first 19 characters of "bb" are "b"
MCShort == [n \in LongNames |-> "b"]
====
