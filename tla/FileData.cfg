CONSTANTS Procs = {1, 2} Inodes = {1, 2} Files = {1, 2} inode <- MCInode
          NBLOCKS = 6 BSIZE = 2 NDIRECT = 2 MAXOPBLOCKS = 6 Image <- MCImage
          Sizes = {7} MaxCalls = 2
SPECIFICATION Spec
INVARIANTS BlocksSound FilesKept FitsInLog
