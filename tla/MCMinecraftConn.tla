--------------------------- MODULE MCMinecraftConn ---------------------------
EXTENDS MinecraftConn
=============================================================================
