---------------------------- MODULE MCRemoteFiles ----------------------------
(* RemoteFiles: the devices, keys, files, contents and buckets are given by  *)
(* the configuration.                                                        *)
EXTENDS RemoteFiles
===============================================================================
